---- MODULE Spec2Model ----
(***************************************************************************)
(* Client-side performance instrumentation of the comic reader:            *)
(*   - PerformanceLogger (named-interval tracker),  lib/performance/logger *)
(*   - WebVitalsLogger   (core-vitals collector),   lib/performance/logger *)
(*   - LayoutShiftAnalyzer,                    lib/performance/layoutShift *)
(*                                                                         *)
(* Encoding of JavaScript values:                                          *)
(*   undefined / null      None  == <<>>                                   *)
(*   a present value x     Some(x) == <<x>>                                *)
(*   performance.now()     the integer variable now (milliseconds)         *)
(*   a metadata object     a function from its keys to strings             *)
(*   a Map                 the sequence of its values in insertion order   *)
(***************************************************************************)
EXTENDS Integers, Sequences, FiniteSets, TLC

VARIABLES
  nodeEnv,       \* process.env['NODE_ENV'] at module load
  isEnabled,     \* PerformanceLogger.isEnabled
  measurements,  \* PerformanceLogger.measurements (Map, in insertion order)
  now,           \* performance.now()
  tasks,         \* measureAsync calls in flight, one slot per call
  pages,         \* ComicViewerPage: where each page's useAsync effect stands
  metrics,       \* WebVitalsLogger.metrics
  vitalsObserver,   \* WebVitalsLogger.observer
  shifts,        \* LayoutShiftAnalyzer.shifts
  shiftObserver, \* LayoutShiftAnalyzer.observer
  analyzerEnabled,  \* LayoutShiftAnalyzer.isEnabled
  dropped,       \* per observing collector: did its latest clear() remove records
  browser,       \* what the page's browser offered when the module loaded
  wallSkew,      \* Date.now() minus performance.now(); the system clock can be set
  teardown,      \* per observing collector: destroy() calls, disconnect() calls
  windowFns,     \* the debug entry points defined on window
  imageWorker,   \* useWorkerImage.ts: the module's worker, or null
  pendingTasks,  \* useWorkerImage.ts: cacheKey -> the resolve/reject of a call
  promises,      \* per processImageWithWorker call: the promise it returned
  inbox,         \* the calls whose PROCESS_IMAGE message the worker has not answered
  timers,        \* the timeouts set and not yet run, in the order they were set
  renderHook,    \* per component using useRenderPerformance: its ref and cycle
  effects,       \* useAsyncEffectPerformance: what its effect callbacks left behind
  stateHook,     \* useStatePerformance: the state, its setter's calls and timeouts
  imageHook,     \* which image hook's module the page uses
  imageCache,    \* that module's imageCache (Map, in insertion order)
  loads,         \* image loads that missed the cache and have not finished
  loadsBegun,    \* how many loads were begun
  viewer,        \* ComicViewerCore: the closure of its effect and the timeouts
  last,          \* what the most recent call on a collector did and gave back
  hist           \* per name: the start()/end()/clear() calls made so far

\* the two observing collectors
collectorVars == <<metrics, vitalsObserver, shifts, shiftObserver, analyzerEnabled,
                   dropped, browser, wallSkew, teardown>>

\* the image worker's module
workerVars == <<imageWorker, pendingTasks, promises, inbox, timers>>

\* useImage.ts, useWorkerImage.ts: the data-URL cache
imageVars == <<imageHook, imageCache, loads, loadsBegun>>

\* ComicViewerPage.tsx: ComicViewerCore
viewerVars == <<viewer>>

\* hooks.ts
hookVars == <<renderHook, effects, stateHook>>

vars == <<viewerVars, imageVars, hookVars, workerVars, windowFns, nodeEnv, isEnabled, measurements, now, tasks, pages, collectorVars,
          last, hist>>

----------------------------------------------------------------------------
(* Bounds of the model *)

MaxClock == 2
MaxTasks == 2
MaxFnTime == 1
MaxMetrics == 2
MaxShifts == 2
MaxSkew == 2
MaxWorkerTasks == 3
MaxSetterCalls == 2
MaxImageLoads == 2
MaxScrollTimers == 3
MaxViewerEvents == 4

Names == {"A", "B"}

\* the name the overlapping asynchronous calls share
AsyncNames == {"A"}

\* pageImageId of the pages the viewer shows, and the names their effect uses
PageIds == {"p1"}
PageName(p) == "ComicViewerPage-" \o p
DecodeName(p) == "Image-decode-" \o p
DecryptName(p) == "Image-decrypt-" \o p
PageNames == UNION {{PageName(p), DecodeName(p), DecryptName(p)} : p \in PageIds}

\* the interval names hooks.ts builds
EffectName(name) == "Effect: " \o name
AsyncEffectName(name) == "AsyncEffect: " \o name
StateUpdateName(name) == "State Update: " \o name
HookNames == {EffectName("sync"), AsyncEffectName("load"), StateUpdateName("count")}

\* the interval names of ComicViewerCore: the calculations of a render in
\* call order, and the names its listeners and getScrollToLeft write
CalculateNames == <<"calculate-cqw", "calculate-cqh", "calculate-pageCountParView",
                    "calculate-pageWidth", "calculate-viewerPaddingInline">>
ViewerHandlerNames == {"handlePointerDown", "getScrollToLeft", "handlePointerMove",
                       "handlePointerUp", "handleScroll", "handleScrollEnd",
                       "handleResize"}

\* the names whose call history is kept
AllNames == Names \cup PageNames \cup HookNames
NodeEnvs == {"development", "production", "test"}
TaskIds == 1..MaxTasks

None == <<>>
Some(x) == <<x>>

\* metadata arguments callers pass to start(): none, or an object
MetaInputs == {None, Some([tag |-> "m1"])}

\* metadata arguments callers pass to measure() and measureAsync()
MeasureMetaInputs == {None, Some([tag |-> "m1"])}

\* metadata arguments callers pass to end(): none, or an object
EndMetaInputs == {None, Some([status |-> "completed"])}

\* values a wrapped function returns
Values == {"v1", "v2"}

\* values a wrapped function throws: an Error instance, and a non-Error value
NoError == [kind |-> "none", str |-> "", num |-> 0]
Thrown == {[kind |-> "Error", str |-> "boom", num |-> 0],
           [kind |-> "number", str |-> "", num |-> 42]}

\* how a call ends: normally with a value, or abruptly with a thrown value
NoOutcome == [kind |-> "none", value |-> "", error |-> NoError]
Returns(v) == [kind |-> "return", value |-> v, error |-> NoError]
Throws(e) == [kind |-> "throw", value |-> "", error |-> e]
FnOutcomes == {Returns(v) : v \in Values} \cup {Throws(e) : e \in Thrown}

\* how the promise of an asynchronous fn settles: fulfilled with a value
\* (Returns) or rejected with a reason (Throws)
AsyncOutcomes == {Returns("v1")} \cup {Throws(e) : e \in Thrown}

----------------------------------------------------------------------------
(* PerformanceLogger: the measurements Map *)

MapHas(ms, name) == \E i \in 1..Len(ms) : ms[i].name = name

MapIndex(ms, name) == CHOOSE i \in 1..Len(ms) : ms[i].name = name

\* Map.get: the record, or undefined
MapGet(ms, name) == IF MapHas(ms, name) THEN Some(ms[MapIndex(ms, name)]) ELSE None

\* Map.set: an existing key keeps its place, a new key goes last
MapSet(ms, name, rec) ==
  IF MapHas(ms, name)
    THEN [ms EXCEPT ![MapIndex(ms, name)] = rec]
    ELSE Append(ms, rec)

\* {...a, ...b} of two optional objects: b's entries win
Spread(o) == IF o = None THEN <<>> ELSE o[1]

MergeMeta(a, b) ==
  LET fa == Spread(a)
      fb == Spread(b)
  IN  [k \in (DOMAIN fa) \cup (DOMAIN fb) |-> IF k \in DOMAIN fb THEN fb[k] ELSE fa[k]]

\* the record start() stores
StartRecord(name, t, metadata) ==
  [name |-> name, startTime |-> t, endTime |-> None, duration |-> None,
   metadata |-> metadata]

\* start() that leaves an unterminated record of the name in place
StartOp_KeepFirst(ms, enabled, name, metadata, t) ==
  IF ~enabled THEN ms
  ELSE IF MapHas(ms, name) /\ ms[MapIndex(ms, name)].duration = None THEN ms
  ELSE MapSet(ms, name, StartRecord(name, t, metadata))

\* start() that does not look at isEnabled
StartOp_AlwaysOn(ms, enabled, name, metadata, t) ==
  MapSet(ms, name, StartRecord(name, t, metadata))

\* start() that pushes a new record
StartOp_Append(ms, enabled, name, metadata, t) ==
  IF ~enabled THEN ms
  ELSE Append(ms, StartRecord(name, t, metadata))

\* start(name, metadata) at time t: the Map afterwards
StartOp(ms, enabled, name, metadata, t) ==
  IF ~enabled THEN ms
  ELSE MapSet(ms, name, StartRecord(name, t, metadata))

\* end() that stores the clock as the duration
EndRecord_NoSubtract(m, t) ==
  [m EXCEPT !.endTime = Some(t), !.duration = Some(t)]

\* the assignments end() makes to the record it found
EndRecord(m, t) ==
  [m EXCEPT !.endTime = Some(t), !.duration = Some(t - m.startTime)]

\* end() that opens a record when it finds none
EndOp_Upsert(ms, enabled, name, metadata, t) ==
  IF ~enabled THEN [ms |-> ms, ret |-> None, logged |-> None]
  ELSE LET ms0 == IF MapHas(ms, name) THEN ms
                  ELSE Append(ms, StartRecord(name, t, None))
           i == MapIndex(ms0, name)
           m == EndRecord(ms0[i], t)
       IN  [ms |-> [ms0 EXCEPT ![i] = m],
            ret |-> m.duration,
            logged |-> Some(MergeMeta(m.metadata, metadata))]

\* end(name, metadata) at time t: the Map afterwards, the value returned,
\* and the object handed to console.log (None when nothing is logged)
EndOp(ms, enabled, name, metadata, t) ==
  IF ~enabled THEN [ms |-> ms, ret |-> None, logged |-> None]
  ELSE IF MapGet(ms, name) = None
    THEN [ms |-> ms, ret |-> None, logged |-> None]
    ELSE LET i == MapIndex(ms, name)
             m == EndRecord(ms[i], t)
         IN  [ms |-> [ms EXCEPT ![i] = m],
              ret |-> m.duration,
              logged |-> Some(MergeMeta(m.metadata, metadata))]

\* m.duration !== undefined
HasDuration(m) == m.duration # None

\* getReport() without the filter
GetReport_All(ms) == ms

\* getReport(): the records whose duration is defined, in Map order
GetReport(ms) == SelectSeq(ms, HasDuration)

\* clear() that removes the completed records only
ClearOp_KeepPending(ms) == SelectSeq(ms, LAMBDA m : ~HasDuration(m))

\* clear()
ClearOp(ms) == <<>>

\* error instanceof Error ? error.message : String(error)
ErrorText(e) == IF e.kind = "Error" THEN e.str ELSE ToString(e.num)

ErrorMeta(e) == Some([error |-> ErrorText(e)])

\* the metadata measure/measureAsync pass to end(): none on success
EndMetaFor(fnOutcome) ==
  IF fnOutcome.kind = "throw" THEN ErrorMeta(fnOutcome.error) ELSE None

\* measure() that rethrows a new Error made from the caught value
MeasureOutcome_Wrapped(fnOutcome) ==
  IF fnOutcome.kind = "throw"
    THEN Throws([kind |-> "Error", str |-> ErrorText(fnOutcome.error), num |-> 0])
  ELSE Returns(fnOutcome.value)

\* what measure/measureAsync give the caller once fn has ended with fnOutcome
MeasureOutcome(fnOutcome) ==
  IF fnOutcome.kind = "throw" THEN Throws(fnOutcome.error)
  ELSE Returns(fnOutcome.value)

\* the end() calls measure/measureAsync make once fn has ended
EndCalls(ms, enabled, name, fnOutcome, t) ==
  LET r == EndOp(ms, enabled, name, EndMetaFor(fnOutcome), t)
  IN  <<[name |-> name, metadata |-> EndMetaFor(fnOutcome), ret |-> r.ret,
         logged |-> r.logged]>>

\* measureAsync() without the await: end() is called as soon as fn has
\* handed back its promise
MeasureAsyncBeforeAwait_NoAwait(ms, enabled, name, metadata, t) ==
  LET ms1 == StartOp(ms, enabled, name, metadata, t)
  IN  [ms |-> EndOp(ms1, enabled, name, None, t).ms,
       ends |-> EndCalls(ms1, enabled, name, Returns("promise"), t)]

\* measureAsync() up to its await: start(), then fn() hands back a promise;
\* the Map afterwards and the end() calls made so far
MeasureAsyncBeforeAwait(ms, enabled, name, metadata, t) ==
  [ms |-> StartOp(ms, enabled, name, metadata, t), ends |-> <<>>]

\* the Map after the end() calls in ends, made at time t
RECURSIVE AfterEndCalls(_, _, _, _)
AfterEndCalls(ms, enabled, ends, t) ==
  IF ends = <<>> THEN ms
  ELSE AfterEndCalls(EndOp(ms, enabled, Head(ends).name, Head(ends).metadata, t).ms,
                     enabled, Tail(ends), t)

\* printReport(): the lines printed, sorted by descending duration (stable)
RECURSIVE InsertDesc(_, _)
InsertDesc(sorted, m) ==
  IF sorted = <<>> THEN <<m>>
  ELSE IF Head(sorted).duration[1] >= m.duration[1]
    THEN <<Head(sorted)>> \o InsertDesc(Tail(sorted), m)
    ELSE <<m>> \o sorted

RECURSIVE SortDesc(_)
SortDesc(report) ==
  IF report = <<>> THEN <<>>
  ELSE InsertDesc(SortDesc(SubSeq(report, 1, Len(report) - 1)), report[Len(report)])

PrintLines(ms, enabled) ==
  IF ~enabled THEN <<>>
  ELSE LET sorted == SortDesc(GetReport(ms))
       IN  [i \in 1..Len(sorted) |-> [name |-> sorted[i].name, ret |-> sorted[i].duration]]

----------------------------------------------------------------------------
(* WebVitalsLogger *)

\* Date.now() when performance.now() is t, with the page's time origin as the
\* epoch and the system clock skew ms ahead of the monotonic one
DateNow(t, skew) == t + skew

\* thresholds of the five ratings; CLS values are in thousandths
GetLCPRating(value) ==
  IF value <= 2500 THEN "good" ELSE IF value <= 4000 THEN "needs-improvement" ELSE "poor"

GetFIDRating(value) ==
  IF value <= 100 THEN "good" ELSE IF value <= 300 THEN "needs-improvement" ELSE "poor"

\* getCLSRating() with the good tier closed one step too early
GetCLSRating_Exclusive(value) ==
  IF value < 100 THEN "good" ELSE IF value <= 250 THEN "needs-improvement" ELSE "poor"

GetCLSRating(value) ==
  IF value <= 100 THEN "good" ELSE IF value <= 250 THEN "needs-improvement" ELSE "poor"

GetFCPRating(value) ==
  IF value <= 1800 THEN "good" ELSE IF value <= 3000 THEN "needs-improvement" ELSE "poor"

GetTTFBRating(value) ==
  IF value <= 800 THEN "good" ELSE IF value <= 1800 THEN "needs-improvement" ELSE "poor"

\* recordMetric(): the history afterwards, t being what Date.now() gives
RecordMetric(ms, name, value, rating, t) ==
  Append(ms, [name |-> name, value |-> value, rating |-> rating,
              timestamp |-> t])

\* the observer callback's body for one entry
VitalsOnEntry(ms, entry, t) ==
  IF entry.entryType = "largest-contentful-paint"
    THEN RecordMetric(ms, "LCP", entry.startTime, GetLCPRating(entry.startTime), t)
  ELSE IF entry.entryType = "first-input"
    THEN LET fid == entry.processingStart - entry.startTime
         IN  RecordMetric(ms, "FID", fid, GetFIDRating(fid), t)
  ELSE IF entry.entryType = "layout-shift" /\ ~entry.hadRecentInput
    THEN RecordMetric(ms, "CLS", entry.value, GetCLSRating(entry.value), t)
  ELSE ms

\* the observer callback: every entry of the list, in order
RECURSIVE VitalsOnEntries(_, _, _)
VitalsOnEntries(ms, entries, t) ==
  IF entries = <<>> THEN ms
  ELSE VitalsOnEntries(VitalsOnEntry(ms, Head(entries), t), Tail(entries), t)

\* initializeObserver(): "null" when the constructor threw, "created" when
\* observe() threw after the handle was stored, "observing" otherwise
InitializeObserver(b) ==
  IF b.fail = "construct" THEN "null"
  ELSE IF b.fail = "observe" THEN "created"
  ELSE "observing"

\* measureInitialMetrics(): FCP from the paint entry and TTFB from the
\* navigation entry, when they exist
MeasureInitialMetrics(ms, b, t) ==
  LET ms1 == IF b.fcp # None
               THEN RecordMetric(ms, "FCP", b.fcp[1], GetFCPRating(b.fcp[1]), t)
               ELSE ms
  IN  IF b.nav # None
        THEN LET ttfb == b.nav[1].responseStart - b.nav[1].requestStart
             IN  RecordMetric(ms1, "TTFB", ttfb, GetTTFBRating(ttfb), t)
        ELSE ms1

\* new WebVitalsLogger() whose observer set-up lets its failure escape: the
\* constructor ends there
VitalsConstructor_AbortOnFailure(b, t) ==
  IF b.hasObserverApi /\ b.fail = "none"
    THEN [metrics |-> MeasureInitialMetrics(<<>>, b, t),
          observer |-> InitializeObserver(b)]
    ELSE [metrics |-> <<>>, observer |-> "null"]

\* new WebVitalsLogger()
VitalsConstructor(b, t) ==
  IF b.hasObserverApi
    THEN [metrics |-> MeasureInitialMetrics(<<>>, b, t),
          observer |-> InitializeObserver(b)]
    ELSE [metrics |-> <<>>, observer |-> "null"]

\* destroy() that disconnects and keeps the handle
DestroyOp_KeepHandle(observer) ==
  [observer |-> observer, disconnected |-> observer # "null"]

\* destroy() of either observing collector: the handle afterwards, and whether
\* disconnect() was called on it
DestroyOp(observer) ==
  [observer |-> "null", disconnected |-> observer # "null"]

\* getMetrics(): a copy of the history
GetMetrics(ms) == ms

\* getLatestMetrics(): per name the record kept by the loop, as the set of
\* names and the record of each
\* the loop of getLatestMetrics() keeping the record met last
RECURSIVE LatestFold_LastWins(_, _)
LatestFold_LastWins(latest, ms) ==
  IF ms = <<>> THEN latest
  ELSE LET metric == Head(ms)
       IN  LatestFold_LastWins([k \in DOMAIN latest \cup {metric.name} |->
                                  IF k = metric.name THEN metric ELSE latest[k]],
                               Tail(ms))

\* getLatestMetrics() that also replaces on an equal timestamp
RECURSIVE LatestFold_NotOlder(_, _)
LatestFold_NotOlder(latest, ms) ==
  IF ms = <<>> THEN latest
  ELSE LET metric == Head(ms)
           keep == \/ metric.name \notin DOMAIN latest
                   \/ metric.timestamp >= latest[metric.name].timestamp
       IN  LatestFold_NotOlder(IF keep
                                 THEN [k \in DOMAIN latest \cup {metric.name} |->
                                         IF k = metric.name THEN metric ELSE latest[k]]
                                 ELSE latest,
                               Tail(ms))

RECURSIVE LatestFold(_, _)
LatestFold(latest, ms) ==
  IF ms = <<>> THEN latest
  ELSE LET metric == Head(ms)
           keep == \/ metric.name \notin DOMAIN latest
                   \/ metric.timestamp > latest[metric.name].timestamp
       IN  LatestFold(IF keep
                        THEN [k \in DOMAIN latest \cup {metric.name} |->
                                IF k = metric.name THEN metric ELSE latest[k]]
                        ELSE latest,
                      Tail(ms))

GetLatestMetrics(ms) == LatestFold(<<>>, ms)

\* WebVitalsLogger.clear()
VitalsClearOp(ms) == <<>>

----------------------------------------------------------------------------
(* LayoutShiftAnalyzer *)

\* the trailing window of getTotalScore(), in ms
ShiftWindowMs == 5000

\* DOM elements shifts are attributed to: tag, id, class list, and the parent
\* (None for no parent element)
Elements ==
  <<[tagName |-> "IMG", id |-> "hero", classes |-> <<>>,
     parent |-> Some([tagName |-> "BODY", classes |-> <<>>, isBody |-> TRUE])],
    [tagName |-> "DIV", id |-> "", classes |-> <<"card", "wide">>,
     parent |-> Some([tagName |-> "SECTION", classes |-> <<"list", "grid">>, isBody |-> FALSE])],
    [tagName |-> "DIV", id |-> "", classes |-> <<"card", "wide">>,
     parent |-> Some([tagName |-> "SECTION", classes |-> <<"list", "grid">>, isBody |-> FALSE])]>>

ElementIds == 1..Len(Elements)

\* tagName.toLowerCase()
ToLowerCase(tag) ==
  CASE tag = "IMG" -> "img"
    [] tag = "DIV" -> "div"
    [] tag = "SECTION" -> "section"
    [] tag = "BODY" -> "body"
    [] OTHER -> tag

\* className.replace(/\s+/g, '.') of a class list
RECURSIVE JoinDots(_)
JoinDots(classes) ==
  IF classes = <<>> THEN ""
  ELSE IF Len(classes) = 1 THEN classes[1]
  ELSE classes[1] \o "." \o JoinDots(Tail(classes))

\* getElementSelector()
GetElementSelector(element) ==
  LET tagName == ToLowerCase(element.tagName)
      id == IF element.id # "" THEN "#" \o element.id ELSE ""
      classes == IF element.classes # <<>> THEN "." \o JoinDots(element.classes) ELSE ""
      selector == tagName \o id \o classes
  IN  IF element.parent # None /\ ~element.parent[1].isBody
        THEN LET parent == element.parent[1]
                 parentClass == IF parent.classes # <<>> THEN "." \o parent.classes[1] ELSE ""
             IN  ToLowerCase(parent.tagName) \o parentClass \o " > " \o selector
        ELSE selector

\* the callback's body without the recent-input test
AnalyzerOnEntry_NoInputFilter(ss, entry) ==
  IF entry.entryType = "layout-shift"
    THEN Append(ss, [score |-> entry.value, timestamp |-> entry.startTime,
                     sources |-> IF entry.sources = None THEN <<>> ELSE entry.sources[1],
                     hadRecentInput |-> entry.hadRecentInput])
    ELSE ss

\* the observer callback's body for one entry
AnalyzerOnEntry(ss, entry) ==
  IF entry.entryType = "layout-shift"
    THEN IF entry.hadRecentInput THEN ss
         ELSE Append(ss, [score |-> entry.value, timestamp |-> entry.startTime,
                          sources |-> IF entry.sources = None THEN <<>> ELSE entry.sources[1],
                          hadRecentInput |-> entry.hadRecentInput])
    ELSE ss

RECURSIVE AnalyzerOnEntries(_, _)
AnalyzerOnEntries(ss, entries) ==
  IF entries = <<>> THEN ss
  ELSE AnalyzerOnEntries(AnalyzerOnEntry(ss, Head(entries)), Tail(entries))

\* new LayoutShiftAnalyzer() that subscribes in every mode
AnalyzerConstructor_Ungated(env, b) ==
  [isEnabled |-> (env = "development"),
   observer |-> IF b.hasObserverApi THEN InitializeObserver(b) ELSE "null"]

\* new LayoutShiftAnalyzer()
AnalyzerConstructor(env, b) ==
  LET enabled == (env = "development")
  IN  [isEnabled |-> enabled,
       observer |-> IF enabled /\ b.hasObserverApi
                      THEN InitializeObserver(b) ELSE "null"]

RECURSIVE SumScores(_)
SumScores(ss) == IF ss = <<>> THEN 0 ELSE Head(ss).score + SumScores(Tail(ss))

\* getTotalScore() with a window that is open at its far end
GetTotalScore_Strict(ss, t) ==
  SumScores(SelectSeq(ss, LAMBDA shift : t - shift.timestamp < ShiftWindowMs))

\* getTotalScore() at time t: the shifts of the trailing window, summed
GetTotalScore(ss, t) ==
  SumScores(SelectSeq(ss, LAMBDA shift : t - shift.timestamp <= ShiftWindowMs))

\* getShiftsByElement(), first loop: one source of a shift is added to the
\* statistics of its selector
AddSource(stats, selector, score) ==
  LET old == IF selector \in DOMAIN stats THEN stats[selector]
             ELSE [count |-> 0, totalScore |-> 0]
  IN  [k \in DOMAIN stats \cup {selector} |->
         IF k = selector
           THEN [count |-> old.count + 1, totalScore |-> old.totalScore + score]
           ELSE stats[k]]

RECURSIVE SourcesFold(_, _, _)
SourcesFold(stats, sources, score) ==
  IF sources = <<>> THEN stats
  ELSE SourcesFold(AddSource(stats, GetElementSelector(Elements[Head(sources)]), score),
                   Tail(sources), score)

RECURSIVE ShiftsFold(_, _)
ShiftsFold(stats, ss) ==
  IF ss = <<>> THEN stats
  ELSE ShiftsFold(SourcesFold(stats, Head(ss).sources, Head(ss).score), Tail(ss))

\* getShiftsByElement() over the shifts of the trailing window only
GetShiftsByElement_Windowed(ss) ==
  LET stats == ShiftsFold(<<>>, SelectSeq(ss, LAMBDA shift :
                                            now - shift.timestamp <= ShiftWindowMs))
  IN  [sel \in DOMAIN stats |->
         [count |-> stats[sel].count, totalScore |-> stats[sel].totalScore,
          avgScore |-> [num |-> stats[sel].totalScore, den |-> stats[sel].count]]]

\* getShiftsByElement(): per selector the count, the total score and the
\* average as the exact quotient totalScore / count
GetShiftsByElement(ss) ==
  LET stats == ShiftsFold(<<>>, ss)
  IN  [sel \in DOMAIN stats |->
         [count |-> stats[sel].count, totalScore |-> stats[sel].totalScore,
          avgScore |-> [num |-> stats[sel].totalScore, den |-> stats[sel].count]]]

\* getShiftSeverity(score), score an exact quotient of thousandths
GetShiftSeverity(score) ==
  IF score.num < 10 * score.den THEN "low"
  ELSE IF score.num < 100 * score.den THEN "medium"
  ELSE "high"

\* printReport(): the mark put before an element (red, yellow, green circle),
\* named by the severity it stands for
ElementSeverity(avgScore) ==
  IF avgScore.num > 100 * avgScore.den THEN "high"
  ELSE IF avgScore.num > 10 * avgScore.den THEN "medium"
  ELSE "low"

\* printReport(): the mark put before the total
OverallColor(totalScore) ==
  IF totalScore > 250 THEN "poor"
  ELSE IF totalScore > 100 THEN "needs-improvement"
  ELSE "good"

TopElements == 10

\* the selectors of the sources of all shifts, in the order the first loop of
\* getShiftsByElement() meets them
RECURSIVE SourceSelectors(_)
SourceSelectors(ss) ==
  IF ss = <<>> THEN <<>>
  ELSE [i \in 1..Len(Head(ss).sources) |->
          GetElementSelector(Elements[Head(ss).sources[i]])]
       \o SourceSelectors(Tail(ss))

\* the keys of the record in creation order: each selector where it is met
\* first
RECURSIVE FirstOccurrences(_, _)
FirstOccurrences(keys, selectors) ==
  IF selectors = <<>> THEN keys
  ELSE FirstOccurrences(IF \E i \in 1..Len(keys) : keys[i] = Head(selectors)
                          THEN keys ELSE Append(keys, Head(selectors)),
                        Tail(selectors))

\* Object.entries(getShiftsByElement()): the pairs [selector, stats] in the
\* creation order of the keys
StatsEntries(ss) ==
  LET keys == FirstOccurrences(<<>>, SourceSelectors(ss))
  IN  [i \in 1..Len(keys) |->
         [selector |-> keys[i], stats |-> GetShiftsByElement(ss)[keys[i]]]]

\* sort((a, b) => b.totalScore - a.totalScore): descending and stable, an
\* entry goes behind the entries of the same total score that came before it
RECURSIVE InsertByTotalScore(_, _)
InsertByTotalScore(sorted, e) ==
  IF sorted = <<>> THEN <<e>>
  ELSE IF Head(sorted).stats.totalScore >= e.stats.totalScore
    THEN <<Head(sorted)>> \o InsertByTotalScore(Tail(sorted), e)
    ELSE <<e>> \o sorted

RECURSIVE SortByTotalScore(_)
SortByTotalScore(entries) ==
  IF entries = <<>> THEN <<>>
  ELSE InsertByTotalScore(SortByTotalScore(SubSeq(entries, 1, Len(entries) - 1)),
                          entries[Len(entries)])

\* printReport(): the entries listed, sortedElements: the first ten of the
\* sorted entries, the place in the sequence being the rank printed
ListedElements(entries) ==
  LET sorted == SortByTotalScore(entries)
  IN  SubSeq(sorted, 1, IF Len(sorted) < TopElements THEN Len(sorted) ELSE TopElements)

\* printReport() at time t: nothing when disabled, else the mark of the total
\* and, in the order printed, each listed element with its mark
AnalyzerPrintReport(ss, enabled, t) ==
  IF ~enabled THEN None
  ELSE LET listed == ListedElements(StatsEntries(ss))
       IN  Some([total |-> GetTotalScore(ss, t),
                 color |-> OverallColor(GetTotalScore(ss, t)),
                 elements |-> [i \in 1..Len(listed) |->
                                 [selector |-> listed[i].selector,
                                  severity |-> ElementSeverity(listed[i].stats.avgScore)]]])

\* LayoutShiftAnalyzer.clear()
AnalyzerClearOp(ss) == <<>>

----------------------------------------------------------------------------
(* Call history, kept per name beside the program's state *)

\* ever:    start(name) was called at least once
\* live:    start(name) was called and clear() has not been called since
\* t, meta: the clock and the metadata of the latest start(name)
\* stacked: starts of the name in a row up to the latest one (0 when not
\*          live, 2 for two or more)
\* ends:    end(name) calls after the latest start(name) (2 for two or more)
NoHist == [ever |-> FALSE, live |-> FALSE, t |-> 0, meta |-> None, stacked |-> 0,
           ends |-> 0]

\* With the tracker disabled no interval exists: only ever and live are kept.
HistStart(h, enabled, t, metadata) ==
  IF ~enabled THEN [NoHist EXCEPT !.ever = TRUE, !.live = TRUE]
  ELSE [ever |-> TRUE, live |-> TRUE, t |-> t, meta |-> metadata,
        stacked |-> IF h.live /\ h.ends = 0 /\ h.stacked >= 1 THEN 2 ELSE 1,
        ends |-> 0]

HistEnd(h, enabled) ==
  IF ~enabled THEN h
  ELSE [h EXCEPT !.ends = IF h.ends >= 1 THEN 2 ELSE 1]

HistClear(h) == [NoHist EXCEPT !.ever = h.ever]

----------------------------------------------------------------------------
(* debug.ts: the console entry points *)

DebugEntryPoints == {"perfReport", "perfClear", "vitalsReport", "layoutReport",
                     "fullReport"}

\* the module body: what it defines on window
DebugInstall(env, hasWindow) ==
  IF hasWindow /\ env = "development" THEN DebugEntryPoints ELSE {}

\* a clear-all that forgets the two observing collectors
PerfClearOp_TrackerOnly(ms, vs, ss) ==
  [measurements |-> ClearOp(ms), metrics |-> vs, shifts |-> ss]

\* window.perfClear
PerfClearOp(ms, vs, ss) ==
  [measurements |-> ClearOp(ms), metrics |-> VitalsClearOp(vs),
   shifts |-> AnalyzerClearOp(ss)]

PerfClearLog == <<"All performance data cleared">>

----------------------------------------------------------------------------
(* useWorkerImage.ts: the image worker *)

WorkerTaskIds == 1..MaxWorkerTasks
CacheKeys == {"img1-1-1-0.8-jpg", "img2-1-1-0.8-jpg"}

\* the images the hooks are asked for: with the cache at its limit or one
\* below, the oldest image, the one that fills the cache and a new one; with
\* a cache further below its limit, image 1 and image 2
LoadKeys(limit, cache) ==
  IF Len(cache) + 1 < limit THEN {1, 2} ELSE {1, limit, limit + 1}

\* every cacheKey a processImageWithWorker call is made with
PendingKeys == CacheKeys \cup {"img" \o ToString(k) \o "-1-1-0.8-jpg" : k \in {100, 101}}

NoPromise == [st |-> "idle", key |-> "", why |-> ""]

Settled(p) == p.st \in {"fulfilled", "rejected"}

\* resolve or reject of a promise: only a pending promise changes
Settle(ps, t, st, why) ==
  IF ps[t].st = "pending" THEN [ps EXCEPT ![t].st = st, ![t].why = why] ELSE ps

\* initWorker(); ok: Worker exists and its construction does not throw
InitWorkerOp(worker, ok) ==
  IF worker = "null" /\ ok THEN "created" ELSE worker

\* processImageWithWorker(..., cacheKey), the promise's executor
ProcessImageWithWorkerOp(worker, pending, ps, box, tm, t, cacheKey) ==
  IF worker = "null"
    THEN [pendingTasks |-> pending,
          promises |-> [ps EXCEPT ![t] = [st |-> "rejected", key |-> cacheKey,
                                          why |-> "Worker not available"]],
          inbox |-> box, timers |-> tm]
    ELSE [pendingTasks |-> [pending EXCEPT ![cacheKey] = Some(t)],
          promises |-> [ps EXCEPT ![t] = [st |-> "pending", key |-> cacheKey,
                                          why |-> ""]],
          inbox |-> box \cup {t},
          timers |-> Append(tm, t)]

\* imageWorker.onmessage for an IMAGE_PROCESSED reply
OnMessage(pending, ps, cacheKey, isError) ==
  IF pending[cacheKey] = None
    THEN [pendingTasks |-> pending, promises |-> ps]
    ELSE [pendingTasks |-> [pending EXCEPT ![cacheKey] = None],
          promises |-> IF isError
                         THEN Settle(ps, pending[cacheKey][1], "rejected", "error")
                         ELSE Settle(ps, pending[cacheKey][1], "fulfilled", "dataUrl")]

\* the setTimeout callback of call t
OnTimeout(pending, ps, t) ==
  IF pending[ps[t].key] # None
    THEN [pendingTasks |-> [pending EXCEPT ![ps[t].key] = None],
          promises |-> Settle(ps, t, "rejected", "Worker processing timeout")]
    ELSE [pendingTasks |-> pending, promises |-> ps]

\* module load
WorkerLoaded ==
  /\ imageWorker = "null"
  /\ pendingTasks = [k \in PendingKeys |-> None]
  /\ promises = [t \in WorkerTaskIds |-> NoPromise]
  /\ inbox = {}
  /\ timers = <<>>

----------------------------------------------------------------------------
(* hooks.ts: useRenderPerformance *)

\* the components that call useRenderPerformance; Footer passes no
\* dependency list, so its effect runs after every render
Components == {"Footer", "ComicViewerCore"}
HasDependencies(c) == c # "Footer"

\* current: renderStartTime.current; began: when the render in progress (or the
\* latest one) called the hook; logged: the latest duration printed
Unmounted == [phase |-> "unmounted", current |-> None, began |-> 0, logged |-> None,
              cycles |-> 0]

\* the hook's body in a render at time t: useRef keeps its first initial value
UseRenderPerformanceRender(h, c, depsChanged, t) ==
  [h EXCEPT !.current = IF h.phase = "unmounted" THEN Some(t) ELSE @,
            !.began = t,
            !.phase = IF h.phase = "unmounted" \/ ~HasDependencies(c) \/ depsChanged
                        THEN "effect" ELSE "idle"]

\* the effect at time t
UseRenderPerformanceEffect(h, t) ==
  [h EXCEPT !.logged = Some(t - h.current[1]),
            !.current = Some(t),
            !.phase = "idle",
            !.cycles = IF @ >= 2 THEN 2 ELSE @ + 1]

----------------------------------------------------------------------------
(* hooks.ts: useAsyncEffectPerformance *)

\* the useEffect callback: it calls measureAsync, attaches nothing to the
\* promise it gets and returns undefined
UseAsyncEffectPerformanceCallback ==
  [handlers |-> 0, returned |-> None, thrown |-> None]

\* a promise settles: a rejection with no handler attached is reported as
\* unhandled; unhandled is the set of reasons reported so far
UnhandledAfter(unhandled, handlers, outcome) ==
  IF outcome.kind = "throw" /\ handlers = 0
    THEN unhandled \cup {outcome.error} ELSE unhandled

NoEffects == [detached |-> {}, returned |-> None, thrown |-> None, unhandled |-> {}]

----------------------------------------------------------------------------
(* hooks.ts: useStatePerformance *)

\* value: the state last handed to setState; calls: setter calls made;
\* pending: setTimeout(..., 0) callbacks not yet run; ends: end() calls made;
\* steps: what the latest setter call did, in order
InitialStateHook == [value |-> 0, calls |-> 0, pending |-> 0, ends |-> 0,
                     steps |-> <<>>]

\* a setter that ends the interval at once
SetStateWithPerformance_EndNow(h, ms, enabled, name, value, t) ==
  LET ms1 == StartOp(ms, enabled, name, None, t)
  IN  [ms |-> EndOp(ms1, enabled, name, None, t).ms,
       hook |-> [h EXCEPT !.value = value, !.calls = @ + 1, !.ends = @ + 1,
                          !.steps = <<"start", "setState", "end">>]]

\* setStateWithPerformance(value) at time t: the tracker's Map and the hook
\* afterwards
SetStateWithPerformance(h, ms, enabled, name, value, t) ==
  LET ms1 == StartOp(ms, enabled, name, None, t)
      h1 == [h EXCEPT !.calls = @ + 1, !.steps = <<"start">>]
      h2 == [h1 EXCEPT !.value = value, !.steps = Append(@, "setState")]
      h3 == [h2 EXCEPT !.pending = @ + 1, !.steps = Append(@, "setTimeout")]
  IN  [ms |-> ms1, hook |-> h3]

\* k setter calls one after the other in the same turn
RECURSIVE SetterCallsOp(_, _, _, _, _, _, _)
SetterCallsOp(h, ms, enabled, name, value, t, k) ==
  IF k = 0 THEN [ms |-> ms, hook |-> h]
  ELSE LET r == SetStateWithPerformance(h, ms, enabled, name, value, t)
       IN  SetterCallsOp(r.hook, r.ms, enabled, name, value + 1, t, k - 1)

----------------------------------------------------------------------------
(* useImage.ts, useWorkerImage.ts: the data-URL cache *)

ImageHooks == {"useImage", "useOptimizedImage", "useWorkerImage"}

UseImageCacheLimit == 50
UseOptimizedImageCacheLimit == 100
UseWorkerImageCacheLimit == 100

CacheLimit(hook) ==
  IF hook = "useImage" THEN UseImageCacheLimit
  ELSE IF hook = "useOptimizedImage" THEN UseOptimizedImageCacheLimit
  ELSE UseWorkerImageCacheLimit

\* Images are numbered; image k has the imageId "img<k>" and is asked for at
\* width 1 and height 1, useOptimizedImage and useWorkerImage with their
\* default quality and format.
ImageId(k) == "img" \o ToString(k)

\* the cacheKey template of the hook
CacheKey(hook, k) ==
  IF hook = "useImage" THEN ImageId(k) \o "-1-1"
  ELSE ImageId(k) \o "-1-1-0.8-jpg"

\* A cache is the sequence of its entries [key, value] in insertion order.
CacheHas(cache, key) == \E i \in 1..Len(cache) : cache[i].key = key

\* Map.set: an existing key keeps its place
CacheSet(cache, key, value) ==
  IF CacheHas(cache, key)
    THEN [i \in 1..Len(cache) |->
            IF cache[i].key = key THEN [key |-> key, value |-> value] ELSE cache[i]]
    ELSE Append(cache, [key |-> key, value |-> value])

\* an insertion that never evicts
CacheInsert_NoEvict(cache, limit, key, value) ==
  CacheSet(cache, key, value)

\* the insertion at the end of a load: at the limit the first key of the Map
\* is deleted (a cacheKey is never the empty string), then the entry is set
CacheInsert(cache, limit, key, value) ==
  CacheSet(IF Len(cache) >= limit /\ cache # <<>> THEN Tail(cache) ELSE cache,
           key, value)

\* the cache after images 1..n were loaded one after the other, n within the
\* limit: every insertion found the cache below the limit and appended
CacheAfterLoads(hook, n) ==
  [i \in 1..n |-> [key |-> CacheKey(hook, i), value |-> "dataUrl"]]

\* the loads that can be in flight at once; a new load takes the first
\* free place
LoadSlots == {1, 2}

\* st: where the hook's async function waits, or "returned"/"threw" once its
\* promise has settled and measureAsync has not yet gone on after its
\* `await fn()`; k: its image; useWorker: the hook's useWorker argument;
\* task: its processImageWithWorker call; error: what the function threw
NoLoad == [st |-> "idle", k |-> 0, useWorker |-> FALSE, task |-> 0,
           error |-> NoError]

\* the name of an interval the hooks time for image k
ImageInterval(prefix, k) == prefix \o "-" \o ImageId(k)

\* the metadata the hook hands to measureAsync (quality in hundredths)
LoadMetadata(hook, k, useWorker) ==
  IF hook = "useImage"
    THEN Some([imageId |-> ImageId(k), width |-> 1, height |-> 1])
  ELSE IF hook = "useOptimizedImage"
    THEN Some([imageId |-> ImageId(k), width |-> 1, height |-> 1,
               format |-> "jpg", quality |-> 80])
  ELSE Some([imageId |-> ImageId(k), width |-> 1, height |-> 1,
             format |-> "jpg", quality |-> 80, useWorker |-> useWorker])

\* a start() or end() call made at time t
TimerCall(op, name, metadata, t) ==
  [op |-> op, name |-> name, metadata |-> metadata, t |-> t]

\* the tracker's Map after a run of start()/end() calls
RECURSIVE TrackerCalls(_, _, _)
TrackerCalls(ms, enabled, calls) ==
  IF calls = <<>> THEN ms
  ELSE LET c == Head(calls)
       IN  TrackerCalls(IF c.op = "start"
                          THEN StartOp(ms, enabled, c.name, c.metadata, c.t)
                          ELSE EndOp(ms, enabled, c.name, c.metadata, c.t).ms,
                        enabled, Tail(calls))

\* measureAsync's start() and the hook's calls up to `await img.decode()`
LoadCallsBeforeDecode(hook, k, useWorker, t) ==
  <<TimerCall("start", ImageInterval(hook, k), LoadMetadata(hook, k, useWorker), t)>>
  \o (IF hook = "useImage"
        THEN <<TimerCall("start", ImageInterval("image-load", k), None, t)>>
      ELSE IF hook = "useOptimizedImage"
        THEN <<TimerCall("start", ImageInterval("image-decode", k), None, t)>>
      ELSE <<>>)

\* the hook's calls from the decode to the data URL; useOptimizedImage has
\* started toDataURL-<id> when it tests `canvas instanceof OffscreenCanvas`
LoadCallsAfterDecode(hook, k, t) ==
  IF hook = "useImage"
    THEN <<TimerCall("end", ImageInterval("image-load", k), None, t),
           TimerCall("start", ImageInterval("canvas-setup", k), None, t),
           TimerCall("end", ImageInterval("canvas-setup", k), None, t),
           TimerCall("start", ImageInterval("canvas-draw", k), None, t),
           TimerCall("end", ImageInterval("canvas-draw", k), None, t),
           TimerCall("start", ImageInterval("toDataURL", k), None, t),
           TimerCall("end", ImageInterval("toDataURL", k), None, t)>>
  ELSE IF hook = "useOptimizedImage"
    THEN <<TimerCall("end", ImageInterval("image-decode", k), None, t),
           TimerCall("start", ImageInterval("canvas-processing", k), None, t),
           TimerCall("end", ImageInterval("canvas-processing", k), None, t),
           TimerCall("start", ImageInterval("toDataURL", k), None, t)>>
  ELSE <<>>

\* measureAsync's end() once it goes on after a fulfilled `await fn()`
LoadCallsOnReturn(hook, k, t) ==
  <<TimerCall("end", ImageInterval(hook, k), None, t)>>

\* measureAsync's end() in its catch, after `await fn()` was rejected with e
LoadCallsOnThrow(hook, k, e, t) ==
  <<TimerCall("end", ImageInterval(hook, k), ErrorMeta(e), t)>>

\* the rejection reason of img.decode() and of convertToBlob()
EncodingError == [kind |-> "Error", str |-> "EncodingError", num |-> 0]

\* what `canvas instanceof OffscreenCanvas` throws in a window without
\* OffscreenCanvas
OffscreenCanvasUndefined ==
  [kind |-> "Error", str |-> "OffscreenCanvas is not defined", num |-> 0]

\* how the function goes on after the decode: "sync" makes the data URL with
\* canvas.toDataURL(), which useOptimizedImage never reaches: in a window
\* without OffscreenCanvas its instanceof test throws; "offscreen"
\* (useOptimizedImage with OffscreenCanvas) waits for convertToBlob();
\* "worker" and "workerFails" (useWorkerImage with useWorker and a Worker
\* constructor that works or throws) call initWorker()
LoadPaths(hook, useWorker) ==
  IF hook = "useOptimizedImage" THEN {"sync", "offscreen"}
  ELSE IF hook = "useWorkerImage" /\ useWorker THEN {"sync", "worker", "workerFails"}
  ELSE {"sync"}

\* module load
ImagesIdle ==
  /\ imageHook = "useImage"
  /\ imageCache = <<>>
  /\ loads = [l \in LoadSlots |-> NoLoad]
  /\ loadsBegun = 0

----------------------------------------------------------------------------
(* ComicViewerPage.tsx: the scroll effect of ComicViewerCore *)

\* setTimeout's first handle; scrollEndTimer starts at -1
FirstTimerHandle == 1
NoScrollEndTimer == -1

\* the effect has run on a mounted scroll view, two pages of width 2 a view:
\* its listeners are attached with the abort signal. pending holds the
\* handles of the timeouts that wait to call handleScrollEnd, frames counts
\* the requestAnimationFrame callbacks that wait, events the events the
\* listeners and the ResizeObserver were handed. A scroll distance is
\* Some(pixels); None stands for Number.MAX_SAFE_INTEGER.
ViewerMounted ==
  [aborted |-> FALSE, isPressed |-> FALSE, scrollToLeftWhenScrollEnd |-> Some(0),
   scrollEndTimer |-> NoScrollEndTimer, pending |-> {},
   nextHandle |-> FirstTimerHandle, prevContentRect |-> None, observing |-> TRUE,
   frames |-> 0, events |-> 0, pageCountParView |-> 2, pageWidth |-> 2]

\* getBoundingClientRect() of the scroll view and of its children in document
\* order, with even coordinates so that every centre is a whole number: no
\* page; two pages side by side, equally far from the centre; the same pages
\* scrolled by one page width
ViewerLayouts ==
  {[view |-> [left |-> 0, right |-> 4], children |-> <<>>],
   [view |-> [left |-> 0, right |-> 4],
    children |-> <<[left |-> 2, right |-> 4], [left |-> 0, right |-> 2]>>],
   [view |-> [left |-> 0, right |-> 4],
    children |-> <<[left |-> 4, right |-> 6], [left |-> 2, right |-> 4]>>]}

\* the widths a ResizeObserver entry reports
ResizeWidths == {4, 6}

\* ev.movementX of a pointermove: to the right, to the left
PointerMovements == {2, -4}

\* scrollView.scrollBy({behavior, left}), left a scroll distance
ScrollByCall(behavior, left) == Some([behavior |-> behavior, left |-> left])

Abs(x) == IF x < 0 THEN -x ELSE x

\* the scroll-margin of the nth child
ScrollMargin(pageCountParView, pageWidth, nthChild) ==
  IF pageCountParView = 2
    THEN [left |-> IF nthChild % 2 = 0 THEN pageWidth ELSE 0,
          right |-> IF nthChild % 2 = 1 THEN pageWidth ELSE 0]
    ELSE [left |-> 0, right |-> 0]

\* candidateScrollToLeft of the nth child
CandidateScrollToLeft(pageCountParView, pageWidth, lay, nthChild) ==
  LET m == ScrollMargin(pageCountParView, pageWidth, nthChild)
      rect == lay.children[nthChild]
      areaCenterX == ((rect.left - m.left) + (rect.right + m.right)) \div 2
      scrollViewCenterX == (lay.view.left + lay.view.right) \div 2
  IN  areaCenterX - scrollViewCenterX

\* the loop of getScrollToLeft from child nthChild on: a candidate replaces
\* the distance only when it is strictly nearer
RECURSIVE GetScrollToLeftFrom(_, _, _, _, _)
GetScrollToLeftFrom(scrollToLeft, pageCountParView, pageWidth, lay, nthChild) ==
  IF nthChild > Len(lay.children) THEN scrollToLeft
  ELSE LET c == CandidateScrollToLeft(pageCountParView, pageWidth, lay, nthChild)
       IN  GetScrollToLeftFrom(IF scrollToLeft = None \/ Abs(c) < Abs(scrollToLeft[1])
                                 THEN Some(c) ELSE scrollToLeft,
                               pageCountParView, pageWidth, lay, nthChild + 1)

\* what getScrollToLeft returns
GetScrollToLeft(pageCountParView, pageWidth, lay) ==
  GetScrollToLeftFrom(None, pageCountParView, pageWidth, lay, 1)

\* the start() and end() calls of one getScrollToLeft
GetScrollToLeftCalls(v, lay, t) ==
  <<TimerCall("start", "getScrollToLeft", None, t),
    TimerCall("end", "getScrollToLeft",
              Some([pageCountParView |-> v.pageCountParView,
                    childrenCount |-> Len(lay.children),
                    scrollToLeft |-> GetScrollToLeft(v.pageCountParView, v.pageWidth,
                                                     lay)]), t)>>

\* the calls of one listener run: start(name), the calls made inside, and
\* end(name, metadata)
HandlerCalls(name, inner, metadata, t) ==
  <<TimerCall("start", name, None, t)>> \o inner
    \o <<TimerCall("end", name, metadata, t)>>

\* the calls of measure(name, fn) for each name in turn, fn returning at once
RECURSIVE MeasureCalls(_, _)
MeasureCalls(names, t) ==
  IF names = <<>> THEN <<>>
  ELSE <<TimerCall("start", Head(names), None, t),
         TimerCall("end", Head(names), None, t)>> \o MeasureCalls(Tail(names), t)

\* the tracker calls of one render of component c
RenderCalls(c, t) ==
  IF c = "ComicViewerCore" THEN MeasureCalls(CalculateNames, t) ELSE <<>>

\* handlePointerDown, handlePointerUp and handleScroll between start() and
\* end(): the closure after a pointer event that leaves the button pressed
\* or not
PointerOp(v, pressed, lay) ==
  [v EXCEPT !.isPressed = pressed,
            !.scrollToLeftWhenScrollEnd =
               GetScrollToLeft(v.pageCountParView, v.pageWidth, lay)]

\* handleScrollEnd between its start() and end(): while pressed a timeout is
\* set and its handle kept in scrollEndTimer, otherwise the snap scrollBy is
\* issued
HandleScrollEndOp(v) ==
  IF v.isPressed
    THEN [v |-> [v EXCEPT !.scrollEndTimer = v.nextHandle,
                          !.pending = @ \cup {v.nextHandle},
                          !.nextHandle = @ + 1],
          status |-> "deferred", scrollBy |-> None]
    ELSE [v |-> v, status |-> "completed",
          scrollBy |-> ScrollByCall("smooth", v.scrollToLeftWhenScrollEnd)]

\* entries[0]?.contentRect.width, None for undefined
EntryWidth(entries) == IF entries = <<>> THEN None ELSE Some(Head(entries))

\* handleResize between its start() and end(): a changed width asks for an
\* animation frame; widthChanged is worked out after prevContentRect has
\* been replaced
HandleResizeOp(v, entries) ==
  LET changed == v.prevContentRect # None /\ v.prevContentRect # EntryWidth(entries)
      v1 == [v EXCEPT !.frames = IF changed THEN @ + 1 ELSE @,
                      !.prevContentRect = EntryWidth(entries)]
  IN  [v |-> v1, requested |-> changed,
       widthChanged |-> v1.prevContentRect # EntryWidth(entries)]

\* abortController.abort(): the listeners added with the signal are removed,
\* the abort listeners clear the timeout in scrollEndTimer and disconnect
\* the ResizeObserver
AbortOp(v) ==
  [v EXCEPT !.aborted = TRUE,
            !.pending = @ \ {v.scrollEndTimer},
            !.observing = FALSE]

----------------------------------------------------------------------------
(* State *)

\* what a start(name) finds under the name: nothing, an unterminated record
\* or a completed one
Replaced(ms, name) ==
  IF ~MapHas(ms, name) THEN "none"
  ELSE IF ms[MapIndex(ms, name)].duration = None THEN "open" ELSE "completed"

IdleTask == [st |-> "idle", name |-> "", fn |-> NoOutcome, ends |-> <<>>]

NoCall == [op |-> "none", name |-> "", ret |-> None, fn |-> NoOutcome,
           out |-> NoOutcome, ends |-> <<>>, printed |-> <<>>, entries |-> <<>>,
           table |-> None, over |-> "none"]

\* module load in a browser with PerformanceObserver and no paint or
\* navigation entry yet
\* destroy() not called, disconnect() not called; calls counts the destroy()
\* calls (2 for two or more), disconnects the disconnect() calls they made
NoTeardown == [calls |-> 0, disconnects |-> 0]

DefaultEnv == [hasObserverApi |-> TRUE, fail |-> "none", fcp |-> None, nav |-> None]

\* the singletons webVitalsLogger and layoutShiftAnalyzer after construction
CollectorsConstructed(env, b) ==
  /\ browser = b
  /\ wallSkew = 0
  /\ metrics = VitalsConstructor(b, DateNow(now, wallSkew)).metrics
  /\ vitalsObserver = VitalsConstructor(b, DateNow(now, wallSkew)).observer
  /\ shifts = <<>>
  /\ analyzerEnabled = AnalyzerConstructor(env, b).isEnabled
  /\ shiftObserver = AnalyzerConstructor(env, b).observer
  /\ dropped = [vitals |-> FALSE, analyzer |-> FALSE]
  /\ teardown = [vitals |-> NoTeardown, analyzer |-> NoTeardown]
  /\ windowFns = DebugInstall(env, TRUE)

\* the singleton performanceLogger after construction
TrackerConstructed ==
  /\ WorkerLoaded
  /\ renderHook = [c \in Components |-> Unmounted]
  /\ effects = NoEffects
  /\ stateHook = InitialStateHook
  /\ nodeEnv \in NodeEnvs
  /\ isEnabled = (nodeEnv = "development")
  /\ measurements = <<>>
  /\ now = 0
  /\ tasks = [t \in TaskIds |-> IdleTask]
  /\ last = NoCall
  /\ pages = [p \in PageIds |-> "idle"]
  /\ hist = [n \in AllNames |-> NoHist]
  /\ viewer = ViewerMounted

Init ==
  /\ ImagesIdle
  /\ TrackerConstructed
  /\ CollectorsConstructed(nodeEnv, DefaultEnv)

----------------------------------------------------------------------------
(* Actions *)

\* time passes
Tick ==
  /\ now < MaxClock
  /\ now' = now + 1
  /\ UNCHANGED <<viewerVars, imageVars, hookVars, workerVars, windowFns, nodeEnv, isEnabled, measurements, tasks, pages, collectorVars, last, hist>>

Start(name, metadata) ==
  /\ measurements' = StartOp(measurements, isEnabled, name, metadata, now)
  /\ last' = [NoCall EXCEPT !.op = "start", !.name = name,
                            !.over = Replaced(measurements, name)]
  /\ hist' = [hist EXCEPT ![name] = HistStart(@, isEnabled, now, metadata)]
  /\ UNCHANGED <<viewerVars, imageVars, hookVars, workerVars, windowFns, nodeEnv, isEnabled, now, tasks, pages, collectorVars>>

End(name, metadata) ==
  /\ \E r \in {EndOp(measurements, isEnabled, name, metadata, now)} :
       /\ measurements' = r.ms
       /\ last' = [NoCall EXCEPT !.op = "end", !.name = name, !.ret = r.ret,
                                 !.ends = <<[name |-> name, metadata |-> metadata,
                                             ret |-> r.ret, logged |-> r.logged]>>]
  /\ hist' = [hist EXCEPT ![name] = HistEnd(@, isEnabled)]
  /\ UNCHANGED <<viewerVars, imageVars, hookVars, workerVars, windowFns, nodeEnv, isEnabled, now, tasks, pages, collectorVars>>

\* measure(name, fn, metadata), fn running for d ms and ending with fnOutcome
Measure(name, metadata, d, fnOutcome) ==
  /\ now + d <= MaxClock
  /\ now' = now + d
  /\ \E ms1 \in {StartOp(measurements, isEnabled, name, metadata, now)} :
       \E ends \in {EndCalls(ms1, isEnabled, name, fnOutcome, now + d)} :
         /\ measurements' = AfterEndCalls(ms1, isEnabled, ends, now + d)
         /\ last' = [NoCall EXCEPT !.op = "measure", !.name = name, !.fn = fnOutcome,
                                   !.out = MeasureOutcome(fnOutcome), !.ends = ends]
         /\ hist' = [hist EXCEPT ![name] =
                       IF ends = <<>> THEN HistStart(@, isEnabled, now, metadata)
                       ELSE HistEnd(HistStart(@, isEnabled, now, metadata), isEnabled)]
  /\ UNCHANGED <<viewerVars, imageVars, hookVars, workerVars, windowFns, nodeEnv, isEnabled, tasks, pages, collectorVars>>

Clear ==
  /\ measurements' = ClearOp(measurements)
  /\ last' = [NoCall EXCEPT !.op = "clear"]
  /\ hist' = [n \in AllNames |-> HistClear(hist[n])]
  /\ UNCHANGED <<viewerVars, imageVars, hookVars, workerVars, windowFns, nodeEnv, isEnabled, now, tasks, pages, collectorVars>>

PrintReport ==
  /\ last' = [NoCall EXCEPT !.op = "printReport",
                            !.printed = PrintLines(measurements, isEnabled)]
  /\ UNCHANGED <<viewerVars, imageVars, hookVars, workerVars, windowFns, nodeEnv, isEnabled, measurements, now, tasks, pages, collectorVars, hist>>

\* measureAsync(name, fn, metadata) up to the await of fn's promise
MeasureAsyncCall(t, name, metadata) ==
  LET r == MeasureAsyncBeforeAwait(measurements, isEnabled, name, metadata, now)
  IN  /\ tasks[t].st = "idle"
      /\ measurements' = r.ms
      /\ tasks' = [tasks EXCEPT ![t] = [st |-> "awaiting", name |-> name,
                                        fn |-> NoOutcome, ends |-> r.ends]]
      /\ last' = [NoCall EXCEPT !.op = "measureAsyncCall", !.name = name]
      /\ hist' = [hist EXCEPT ![name] =
                    IF r.ends = <<>> THEN HistStart(@, isEnabled, now, metadata)
                    ELSE HistEnd(HistStart(@, isEnabled, now, metadata), isEnabled)]
      /\ UNCHANGED <<viewerVars, imageVars, hookVars, workerVars, windowFns, nodeEnv, isEnabled, now, pages, collectorVars>>

\* the promise fn handed back settles
FnSettle(t, fnOutcome) ==
  /\ tasks[t].st = "awaiting"
  /\ tasks' = [tasks EXCEPT ![t].st = "settled", ![t].fn = fnOutcome]
  /\ UNCHANGED <<viewerVars, imageVars, hookVars, workerVars, windowFns, nodeEnv, isEnabled, measurements, now, pages, collectorVars, last, hist>>

\* measureAsync() from the await on: end(), then its own promise settles
MeasureAsyncResume(t) ==
  LET name == tasks[t].name
      ends == EndCalls(measurements, isEnabled, name, tasks[t].fn, now)
  IN  /\ tasks[t].st = "settled"
      /\ measurements' = AfterEndCalls(measurements, isEnabled, ends, now)
      /\ tasks' = [tasks EXCEPT ![t] = IdleTask]
      /\ last' = [NoCall EXCEPT !.op = "measureAsync", !.name = name,
                                !.fn = tasks[t].fn,
                                !.out = MeasureOutcome(tasks[t].fn),
                                !.ends = tasks[t].ends \o ends]
      /\ hist' = [hist EXCEPT ![name] =
                    IF ends = <<>> THEN @ ELSE HistEnd(@, isEnabled)]
      /\ UNCHANGED <<viewerVars, imageVars, hookVars, workerVars, windowFns, nodeEnv, isEnabled, now, pages, collectorVars>>

\* a run of start()/end() calls c = [op, name, metadata, t]: the Map and the
\* call history afterwards
RECURSIVE RunCalls(_, _, _, _)
RunCalls(ms, h, enabled, calls) ==
  IF calls = <<>> THEN [ms |-> ms, hist |-> h]
  ELSE LET c == Head(calls)
       IN  IF c.op = "start"
             THEN RunCalls(StartOp(ms, enabled, c.name, c.metadata, c.t),
                           [h EXCEPT ![c.name] = HistStart(@, enabled, c.t, c.metadata)],
                           enabled, Tail(calls))
             ELSE RunCalls(EndOp(ms, enabled, c.name, c.metadata, c.t).ms,
                           [h EXCEPT ![c.name] = HistEnd(@, enabled)],
                           enabled, Tail(calls))

CallStart(name, metadata, t) == [op |-> "start", name |-> name, metadata |-> metadata, t |-> t]
CallEnd(name, t) == [op |-> "end", name |-> name, metadata |-> None, t |-> t]

\* ComicViewerPage's effect up to `await image.decode()`
PageEffectCallsBeforeDecode(p, t) ==
  <<CallStart(PageName(p), Some([pageImageId |-> p]), t),
    CallStart(DecodeName(p), None, t)>>

\* ComicViewerPage's effect after the decode: how = "noCanvas" when the canvas
\* ref is null, "decryptThrows" when decrypt() throws, "ok" otherwise;
\* decrypt() takes d ms
PageEffectCallsAfterDecode(p, how, t, d) ==
  <<CallEnd(DecodeName(p), t)>>
  \o (IF how = "noCanvas" THEN <<>> ELSE <<CallStart(DecryptName(p), None, t)>>)
  \o (IF how = "ok" THEN <<CallEnd(DecryptName(p), t + d), CallEnd(PageName(p), t + d)>>
      ELSE <<>>)

PageEffectBegin(p) ==
  LET r == RunCalls(measurements, hist, isEnabled, PageEffectCallsBeforeDecode(p, now))
  IN  /\ pages[p] = "idle"
      /\ pages' = [pages EXCEPT ![p] = "decoding"]
      /\ measurements' = r.ms
      /\ hist' = r.hist
      /\ last' = [NoCall EXCEPT !.op = "pageEffect", !.name = PageName(p)]
      /\ UNCHANGED <<viewerVars, imageVars, hookVars, workerVars, windowFns, nodeEnv, isEnabled, now, tasks, collectorVars>>

\* image.decode() settles; on a rejection the effect ends there
DecodeSettle(p, ok) ==
  /\ pages[p] = "decoding"
  /\ pages' = [pages EXCEPT ![p] = IF ok THEN "decoded" ELSE "idle"]
  /\ UNCHANGED <<viewerVars, imageVars, hookVars, workerVars, windowFns, nodeEnv, isEnabled, measurements, now, tasks, last, hist, collectorVars>>

PageEffectResume(p, how, d) ==
  LET r == RunCalls(measurements, hist, isEnabled,
                    PageEffectCallsAfterDecode(p, how, now, d))
  IN  /\ pages[p] = "decoded"
      /\ now + d <= MaxClock
      /\ now' = now + d
      /\ pages' = [pages EXCEPT ![p] = "idle"]
      /\ measurements' = r.ms
      /\ hist' = r.hist
      /\ last' = [NoCall EXCEPT !.op = "pageEffect", !.name = PageName(p)]
      /\ UNCHANGED <<viewerVars, imageVars, hookVars, workerVars, windowFns, nodeEnv, isEnabled, tasks, collectorVars>>

\* the vitals collector's observer callback runs with a list of entries
VitalsObserve(entries) ==
  LET ms == VitalsOnEntries(metrics, entries, DateNow(now, wallSkew))
  IN  /\ vitalsObserver = "observing"
      /\ Len(ms) <= MaxMetrics
      /\ metrics' = ms
      /\ last' = [NoCall EXCEPT !.op = "vitals.observe", !.entries = entries]
      /\ UNCHANGED <<viewerVars, imageVars, hookVars, workerVars, windowFns, nodeEnv, isEnabled, measurements, now, tasks, pages, vitalsObserver,
                     shifts, shiftObserver, analyzerEnabled, dropped, browser,
                     wallSkew, teardown, hist>>

\* webVitalsLogger.clear()
VitalsClear ==
  /\ metrics' = VitalsClearOp(metrics)
  /\ dropped' = [dropped EXCEPT !.vitals = (metrics # <<>>)]
  /\ last' = [NoCall EXCEPT !.op = "vitals.clear"]
  /\ UNCHANGED <<viewerVars, imageVars, hookVars, workerVars, windowFns, nodeEnv, isEnabled, measurements, now, tasks, pages, vitalsObserver,
                 shifts, shiftObserver, analyzerEnabled, browser, wallSkew, teardown,
                 hist>>

\* the analyzer's observer callback runs with a list of entries
AnalyzerObserve(entries) ==
  LET ss == AnalyzerOnEntries(shifts, entries)
  IN  /\ shiftObserver = "observing"
      /\ Len(ss) <= MaxShifts
      /\ shifts' = ss
      /\ last' = [NoCall EXCEPT !.op = "analyzer.observe", !.entries = entries]
      /\ UNCHANGED <<viewerVars, imageVars, hookVars, workerVars, windowFns, nodeEnv, isEnabled, measurements, now, tasks, pages, metrics,
                     vitalsObserver, shiftObserver, analyzerEnabled, dropped, browser,
                     wallSkew, teardown, hist>>

\* layoutShiftAnalyzer.clear()
AnalyzerClear ==
  /\ shifts' = AnalyzerClearOp(shifts)
  /\ dropped' = [dropped EXCEPT !.analyzer = (shifts # <<>>)]
  /\ last' = [NoCall EXCEPT !.op = "analyzer.clear"]
  /\ UNCHANGED <<viewerVars, imageVars, hookVars, workerVars, windowFns, nodeEnv, isEnabled, measurements, now, tasks, pages, metrics,
                 vitalsObserver, shiftObserver, analyzerEnabled, browser, wallSkew,
                 teardown, hist>>

\* layoutShiftAnalyzer.getTotalScore()
GetTotalScoreCall ==
  /\ last' = [NoCall EXCEPT !.op = "analyzer.getTotalScore",
                            !.ret = Some(GetTotalScore(shifts, now))]
  /\ UNCHANGED <<viewerVars, imageVars, hookVars, workerVars, windowFns, nodeEnv, isEnabled, measurements, now, tasks, pages, collectorVars,
                 hist>>

\* layoutShiftAnalyzer.getShiftsByElement()
AnalyzerPrintReportCall ==
  /\ last' = [NoCall EXCEPT !.op = "analyzer.printReport",
                            !.table = AnalyzerPrintReport(shifts, analyzerEnabled, now)]
  /\ UNCHANGED <<viewerVars, imageVars, hookVars, workerVars, windowFns, nodeEnv, isEnabled, measurements, now,
                 tasks, pages, collectorVars, hist>>

GetShiftsByElementCall ==
  /\ last' = [NoCall EXCEPT !.op = "analyzer.getShiftsByElement",
                            !.table = Some(GetShiftsByElement(shifts))]
  /\ UNCHANGED <<viewerVars, imageVars, hookVars, workerVars, windowFns, nodeEnv, isEnabled, measurements, now, tasks, pages, collectorVars,
                 hist>>

\* a little less than the analyzer's window passes at once
WindowPasses ==
  /\ now <= MaxClock
  /\ now' = now + ShiftWindowMs - 1
  /\ UNCHANGED <<viewerVars, imageVars, hookVars, workerVars, windowFns, nodeEnv, isEnabled, measurements, tasks, pages, collectorVars, last, hist>>

\* time passes around the far end of the window
LateTick ==
  /\ now >= ShiftWindowMs - 1
  /\ now < ShiftWindowMs + MaxClock
  /\ now' = now + 1
  /\ UNCHANGED <<viewerVars, imageVars, hookVars, workerVars, windowFns, nodeEnv, isEnabled, measurements, tasks, pages, collectorVars, last, hist>>

\* webVitalsLogger.getLatestMetrics()
GetLatestMetricsCall ==
  /\ last' = [NoCall EXCEPT !.op = "vitals.getLatestMetrics",
                            !.table = Some(GetLatestMetrics(metrics))]
  /\ UNCHANGED <<viewerVars, imageVars, hookVars, workerVars, windowFns, nodeEnv, isEnabled, measurements, now, tasks, pages, collectorVars,
                 hist>>

\* the system clock is set: Date.now() jumps forward or back
ClockAdjust(skew) ==
  /\ skew # wallSkew
  /\ wallSkew' = skew
  /\ UNCHANGED <<viewerVars, imageVars, hookVars, workerVars, windowFns, nodeEnv, isEnabled, measurements, now, tasks, pages, metrics,
                 vitalsObserver, shifts, shiftObserver, analyzerEnabled, dropped,
                 browser, teardown, last, hist>>

\* teardown bookkeeping after one destroy() call
AfterDestroy(td, disconnected) ==
  [calls |-> IF td.calls >= 1 THEN 2 ELSE 1,
   disconnects |-> td.disconnects + (IF disconnected THEN 1 ELSE 0)]

\* webVitalsLogger.destroy()
VitalsDestroy ==
  LET r == DestroyOp(vitalsObserver)
  IN  /\ vitalsObserver' = r.observer
      /\ teardown' = [teardown EXCEPT !.vitals = AfterDestroy(@, r.disconnected)]
      /\ last' = [NoCall EXCEPT !.op = "vitals.destroy"]
      /\ UNCHANGED <<viewerVars, imageVars, hookVars, workerVars, windowFns, nodeEnv, isEnabled, measurements, now, tasks, pages, metrics,
                     shifts, shiftObserver, analyzerEnabled, dropped, browser,
                     wallSkew, hist>>

\* layoutShiftAnalyzer.destroy()
AnalyzerDestroy ==
  LET r == DestroyOp(shiftObserver)
  IN  /\ shiftObserver' = r.observer
      /\ teardown' = [teardown EXCEPT !.analyzer = AfterDestroy(@, r.disconnected)]
      /\ last' = [NoCall EXCEPT !.op = "analyzer.destroy"]
      /\ UNCHANGED <<viewerVars, imageVars, hookVars, workerVars, windowFns, nodeEnv, isEnabled, measurements, now, tasks, pages, metrics,
                     vitalsObserver, shifts, analyzerEnabled, dropped, browser,
                     wallSkew, hist>>

\* initWorker()
InitWorker(ok) ==
  /\ imageWorker' = InitWorkerOp(imageWorker, ok)
  /\ UNCHANGED <<viewerVars, imageVars, hookVars, pendingTasks, promises, inbox, timers, windowFns, nodeEnv, isEnabled,
                 measurements, now, tasks, pages, collectorVars, last, hist>>

\* processImageWithWorker(imageData, width, height, quality, format, cacheKey):
\* call t is the next one made
ProcessImageWithWorker(t, cacheKey) ==
  /\ promises[t].st = "idle"
  /\ \A u \in WorkerTaskIds : u < t => promises[u].st # "idle"
  /\ LET r == ProcessImageWithWorkerOp(imageWorker, pendingTasks, promises, inbox,
                                       timers, t, cacheKey)
     IN /\ pendingTasks' = r.pendingTasks
        /\ promises' = r.promises
        /\ inbox' = r.inbox
        /\ timers' = r.timers
  /\ UNCHANGED <<viewerVars, imageVars, hookVars, imageWorker, windowFns, nodeEnv, isEnabled, measurements, now, tasks,
                 pages, collectorVars, last, hist>>

\* the worker answers call t's PROCESS_IMAGE message, echoing its cacheKey,
\* and onmessage runs
WorkerReply(t, isError) ==
  /\ t \in inbox
  /\ inbox' = inbox \ {t}
  /\ pendingTasks' = OnMessage(pendingTasks, promises, promises[t].key,
                               isError).pendingTasks
  /\ promises' = OnMessage(pendingTasks, promises, promises[t].key, isError).promises
  /\ UNCHANGED <<viewerVars, imageVars, hookVars, imageWorker, timers, windowFns, nodeEnv, isEnabled, measurements, now,
                 tasks, pages, collectorVars, last, hist>>

\* the oldest timeout runs: all have the same delay
TimeoutFire ==
  /\ timers # <<>>
  /\ timers' = Tail(timers)
  /\ pendingTasks' = OnTimeout(pendingTasks, promises, Head(timers)).pendingTasks
  /\ promises' = OnTimeout(pendingTasks, promises, Head(timers)).promises
  /\ UNCHANGED <<viewerVars, imageVars, hookVars, imageWorker, inbox, windowFns, nodeEnv, isEnabled, measurements, now,
                 tasks, pages, collectorVars, last, hist>>

\* React renders component c
Render(c, depsChanged) ==
  /\ renderHook[c].phase # "effect"
  /\ renderHook' = [renderHook EXCEPT
                      ![c] = UseRenderPerformanceRender(@, c, depsChanged, now)]
  /\ measurements' = TrackerCalls(measurements, isEnabled, RenderCalls(c, now))
  /\ UNCHANGED <<viewerVars, imageVars, effects, stateHook, workerVars, windowFns, nodeEnv, isEnabled, now, tasks,
                 pages, collectorVars, last, hist>>

\* React runs the effect of c's latest render
RenderEffect(c) ==
  /\ renderHook[c].phase = "effect"
  /\ renderHook' = [renderHook EXCEPT ![c] = UseRenderPerformanceEffect(@, now)]
  /\ UNCHANGED <<viewerVars, imageVars, effects, stateHook, workerVars, windowFns, nodeEnv, isEnabled, measurements, now, tasks,
                 pages, collectorVars, last, hist>>

\* React runs the effect of useEffectPerformance(name, effect, deps), the
\* effect running for d ms: the callback hands React what measure() gives
\* it, the effect's cleanup, or throws what the effect threw
EffectRun(name, d, fnOutcome) ==
  LET ms1 == StartOp(measurements, isEnabled, EffectName(name), None, now)
      ends == EndCalls(ms1, isEnabled, EffectName(name), fnOutcome, now + d)
      h1 == HistStart(hist[EffectName(name)], isEnabled, now, None)
  IN  /\ now + d <= MaxClock
      /\ now' = now + d
      /\ measurements' = AfterEndCalls(ms1, isEnabled, ends, now + d)
      /\ last' = [NoCall EXCEPT !.op = "effect", !.name = EffectName(name),
                                !.fn = fnOutcome, !.out = MeasureOutcome(fnOutcome),
                                !.ends = ends]
      /\ hist' = [hist EXCEPT ![EffectName(name)] =
                    IF ends = <<>> THEN h1 ELSE HistEnd(h1, isEnabled)]
      /\ UNCHANGED <<viewerVars, imageVars, hookVars, workerVars, windowFns, nodeEnv,
                     isEnabled, tasks, pages, collectorVars>>

\* React runs the effect of useAsyncEffectPerformance(name, effect, deps):
\* measureAsync up to its await, in call slot t
AsyncEffectRun(t, name) ==
  LET r == MeasureAsyncBeforeAwait(measurements, isEnabled, AsyncEffectName(name),
                                   None, now)
  IN  /\ tasks[t].st = "idle"
      /\ measurements' = r.ms
      /\ tasks' = [tasks EXCEPT ![t] = [st |-> "awaiting",
                                        name |-> AsyncEffectName(name),
                                        fn |-> NoOutcome, ends |-> r.ends]]
      /\ effects' = [effects EXCEPT
                       !.detached = @ \cup {t},
                       !.returned = UseAsyncEffectPerformanceCallback.returned,
                       !.thrown = UseAsyncEffectPerformanceCallback.thrown]
      /\ last' = [NoCall EXCEPT !.op = "asyncEffect", !.name = AsyncEffectName(name)]
      /\ hist' = [hist EXCEPT ![AsyncEffectName(name)] =
                    HistStart(@, isEnabled, now, None)]
      /\ UNCHANGED <<viewerVars, imageVars, renderHook, stateHook, workerVars, windowFns, nodeEnv, isEnabled, now, pages,
                     collectorVars>>

\* the effect's promise has settled: measureAsync goes on from its await,
\* calls end() and settles the promise the adapter dropped
AsyncEffectResume(t) ==
  LET name == tasks[t].name
      ends == EndCalls(measurements, isEnabled, name, tasks[t].fn, now)
  IN  /\ tasks[t].st = "settled"
      /\ t \in effects.detached
      /\ measurements' = AfterEndCalls(measurements, isEnabled, ends, now)
      /\ tasks' = [tasks EXCEPT ![t] = IdleTask]
      /\ effects' = [effects EXCEPT
                       !.detached = @ \ {t},
                       !.unhandled =
                          UnhandledAfter(@, UseAsyncEffectPerformanceCallback.handlers,
                                         MeasureOutcome(tasks[t].fn))]
      /\ last' = [NoCall EXCEPT !.op = "asyncEffect.settled", !.name = name,
                                !.fn = tasks[t].fn,
                                !.out = MeasureOutcome(tasks[t].fn),
                                !.ends = tasks[t].ends \o ends]
      /\ hist' = [hist EXCEPT ![name] = HistEnd(@, isEnabled)]
      /\ UNCHANGED <<viewerVars, imageVars, renderHook, stateHook, workerVars, windowFns, nodeEnv, isEnabled, now, pages,
                     collectorVars>>

\* an event handler calls the setter of useStatePerformance(name, 0) k times
SetterCalls(name, k) ==
  LET r == SetterCallsOp(stateHook, measurements, isEnabled, StateUpdateName(name),
                         stateHook.value + 1, now, k)
  IN  /\ stateHook.calls + k <= MaxSetterCalls
      /\ measurements' = r.ms
      /\ stateHook' = r.hook
      /\ last' = [NoCall EXCEPT !.op = "setState", !.name = StateUpdateName(name)]
      /\ hist' = [hist EXCEPT ![StateUpdateName(name)] =
                    HistStart(IF k = 2 THEN HistStart(@, isEnabled, now, None) ELSE @,
                              isEnabled, now, None)]
      /\ UNCHANGED <<viewerVars, imageVars, renderHook, effects, workerVars, windowFns, nodeEnv, isEnabled,
                     now, tasks, pages, collectorVars>>

\* a later turn of the event loop runs the oldest setTimeout callback: end()
StateEndTimer(name) ==
  LET r == EndOp(measurements, isEnabled, StateUpdateName(name), None, now)
  IN  /\ stateHook.pending > 0
      /\ measurements' = r.ms
      /\ stateHook' = [stateHook EXCEPT !.pending = @ - 1, !.ends = @ + 1]
      /\ last' = [NoCall EXCEPT !.op = "stateEnd", !.name = StateUpdateName(name),
                                !.ret = r.ret]
      /\ hist' = [hist EXCEPT ![StateUpdateName(name)] = HistEnd(@, isEnabled)]
      /\ UNCHANGED <<viewerVars, imageVars, renderHook, effects, workerVars, windowFns, nodeEnv, isEnabled,
                     now, tasks, pages, collectorVars>>

\* the hook's async function up to its first await: a cache hit returns the
\* cached data URL, a miss starts measureAsync and the image's decode
LoadBegin(l, k, useWorker) ==
  LET key == CacheKey(imageHook, k)
  IN  /\ loads[l].st = "idle"
      /\ \A m \in LoadSlots : m < l => loads[m].st # "idle"
      /\ useWorker => imageHook = "useWorkerImage"
      /\ loadsBegun < MaxImageLoads
      /\ loadsBegun' = loadsBegun + 1
      /\ IF CacheHas(imageCache, key)
           THEN /\ loads' = loads
                /\ measurements' = measurements
                /\ last' = [NoCall EXCEPT !.op = "image.hit", !.name = key]
           ELSE /\ loads' = [loads EXCEPT ![l] = [st |-> "decoding", k |-> k,
                                                  useWorker |-> useWorker, task |-> 0,
                                                  error |-> NoError]]
                /\ measurements' =
                     TrackerCalls(measurements, isEnabled,
                                  LoadCallsBeforeDecode(imageHook, k, useWorker, now))
                /\ last' = [NoCall EXCEPT !.op = "image.miss", !.name = key]
      /\ UNCHANGED <<viewerVars, imageHook, imageCache, hookVars, workerVars, windowFns,
                     nodeEnv, isEnabled, now, tasks, pages, collectorVars, hist>>

\* the function has its data URL: it stores it in the cache and returns,
\* which fulfils its promise; measureAsync, waiting at `await fn()`, goes on
\* in a later job; calls are the start()/end() calls made on the way
LoadStore(l, calls) ==
  LET k == loads[l].k
  IN  /\ imageCache' = CacheInsert(imageCache, CacheLimit(imageHook),
                                   CacheKey(imageHook, k), "dataUrl")
      /\ measurements' = TrackerCalls(measurements, isEnabled, calls)
      /\ loads' = [loads EXCEPT ![l].st = "returned"]
      /\ last' = [NoCall EXCEPT !.op = "image.loaded",
                                !.name = CacheKey(imageHook, k)]

\* the function throws e, which rejects its promise; nothing is stored and
\* measureAsync's catch runs in a later job
LoadThrow(l, calls, e) ==
  /\ measurements' = TrackerCalls(measurements, isEnabled, calls)
  /\ loads' = [loads EXCEPT ![l].st = "threw", ![l].error = e]
  /\ last' = [NoCall EXCEPT !.op = "image.threw",
                            !.name = CacheKey(imageHook, loads[l].k)]

\* img.decode() has fulfilled and the function runs until it waits again or
\* returns
LoadFinish(l, how) ==
  LET k == loads[l].k
      calls == LoadCallsAfterDecode(imageHook, k, now)
      worker == InitWorkerOp(imageWorker, how = "worker")
  IN  /\ loads[l].st = "decoding"
      /\ how \in LoadPaths(imageHook, loads[l].useWorker)
      /\ IF how = "offscreen"
           THEN /\ loads' = [loads EXCEPT ![l].st = "converting"]
                /\ measurements' = TrackerCalls(measurements, isEnabled, calls)
                /\ last' = [NoCall EXCEPT !.op = "image.converting",
                                          !.name = CacheKey(imageHook, k)]
                /\ UNCHANGED <<imageCache, workerVars>>
         ELSE IF imageHook = "useOptimizedImage"
           THEN /\ LoadThrow(l, calls, OffscreenCanvasUndefined)
                /\ UNCHANGED <<imageCache, workerVars>>
         ELSE IF how \in {"worker", "workerFails"} /\ worker # "null"
           THEN \E t \in WorkerTaskIds :
                  /\ promises[t].st = "idle"
                  /\ \A u \in WorkerTaskIds : u < t => promises[u].st # "idle"
                  /\ LET r == ProcessImageWithWorkerOp(worker, pendingTasks, promises,
                                                       inbox, timers, t,
                                                       CacheKey(imageHook, k))
                     IN  /\ imageWorker' = worker
                         /\ pendingTasks' = r.pendingTasks
                         /\ promises' = r.promises
                         /\ inbox' = r.inbox
                         /\ timers' = r.timers
                  /\ loads' = [loads EXCEPT ![l].st = "processing", ![l].task = t]
                  /\ last' = [NoCall EXCEPT !.op = "image.processing",
                                            !.name = CacheKey(imageHook, k)]
                  /\ UNCHANGED <<imageCache, measurements>>
         ELSE /\ LoadStore(l, calls)
              /\ UNCHANGED workerVars
      /\ UNCHANGED <<viewerVars, imageHook, loadsBegun, hookVars, windowFns, nodeEnv,
                     isEnabled, now, tasks, pages, collectorVars, hist>>

\* img.decode() rejects: the function throws at its await
LoadFail(l) ==
  /\ loads[l].st = "decoding"
  /\ LoadThrow(l, <<>>, EncodingError)
  /\ UNCHANGED <<viewerVars, imageHook, imageCache, loadsBegun, hookVars, workerVars,
                 windowFns, nodeEnv, isEnabled, now, tasks, pages, collectorVars,
                 hist>>

\* useOptimizedImage: canvas.convertToBlob() settles; fulfilled, the function
\* waits for the FileReader; rejected, it throws
LoadBlobSettle(l, ok) ==
  /\ loads[l].st = "converting"
  /\ IF ok
       THEN /\ loads' = [loads EXCEPT ![l].st = "reading"]
            /\ measurements' = measurements
            /\ last' = [NoCall EXCEPT !.op = "image.reading",
                                      !.name = CacheKey(imageHook, loads[l].k)]
       ELSE LoadThrow(l, <<>>, EncodingError)
  /\ UNCHANGED <<viewerVars, imageHook, imageCache, loadsBegun, hookVars, workerVars,
                 windowFns, nodeEnv, isEnabled, now, tasks, pages, collectorVars,
                 hist>>

\* useOptimizedImage: the FileReader's onload hands over the data URL
LoadReaderLoad(l) ==
  /\ loads[l].st = "reading"
  /\ LoadStore(l, <<TimerCall("end", ImageInterval("toDataURL", loads[l].k), None,
                              now)>>)
  /\ UNCHANGED <<viewerVars, imageHook, loadsBegun, hookVars, workerVars, windowFns,
                 nodeEnv, isEnabled, now, tasks, pages, collectorVars, hist>>

\* useWorkerImage: the promise of processImageWithWorker has settled; on a
\* rejection the catch makes the data URL with canvas.toDataURL()
LoadWorkerSettled(l) ==
  /\ loads[l].st = "processing"
  /\ Settled(promises[loads[l].task])
  /\ LoadStore(l, <<>>)
  /\ UNCHANGED <<viewerVars, imageHook, loadsBegun, hookVars, workerVars, windowFns,
                 nodeEnv, isEnabled, now, tasks, pages, collectorVars, hist>>

\* measureAsync goes on after `await fn()`: end(name) and the return when
\* the function's promise was fulfilled, end(name, {error}) and the rethrow
\* when it was rejected
LoadResume(l) ==
  LET k == loads[l].k
  IN  /\ loads[l].st \in {"returned", "threw"}
      /\ measurements' =
           TrackerCalls(measurements, isEnabled,
                        IF loads[l].st = "returned"
                          THEN LoadCallsOnReturn(imageHook, k, now)
                          ELSE LoadCallsOnThrow(imageHook, k, loads[l].error, now))
      /\ loads' = [loads EXCEPT ![l] = NoLoad]
      /\ last' = [NoCall EXCEPT !.op = IF loads[l].st = "returned"
                                         THEN "image.ended" ELSE "image.failed",
                                !.name = CacheKey(imageHook, k)]
      /\ UNCHANGED <<viewerVars, imageHook, imageCache, loadsBegun, hookVars,
                     workerVars, windowFns, nodeEnv, isEnabled, now, tasks, pages,
                     collectorVars, hist>>

\* a listener of the scroll view is handed an event; scrollBy is the
\* scrollBy call its run makes, None when it makes none
ViewerEvent(v1, op, calls, scrollBy) ==
  /\ ~viewer.aborted
  /\ viewer.events < MaxViewerEvents
  /\ viewer' = [v1 EXCEPT !.events = @ + 1]
  /\ measurements' = TrackerCalls(measurements, isEnabled, calls)
  /\ last' = [NoCall EXCEPT !.op = op, !.name = calls[1].name, !.ret = scrollBy]
  /\ UNCHANGED <<imageVars, hookVars, workerVars, windowFns, nodeEnv, isEnabled, now,
                 tasks, pages, collectorVars, hist>>

\* pointerdown on the scroll view
HandlePointerDown(lay) ==
  ViewerEvent(PointerOp(viewer, TRUE, lay), "handlePointerDown",
              HandlerCalls("handlePointerDown", GetScrollToLeftCalls(viewer, lay, now),
                           None, now),
              None)

\* pointermove on the scroll view: while pressed the listener scrolls the
\* view at once against the movement, then calls getScrollToLeft on the
\* layout lay the scroll leaves; with the button up it does nothing
HandlePointerMove(lay, movementX) ==
  /\ ~viewer.aborted
  /\ viewer.events < MaxViewerEvents
  /\ IF viewer.isPressed
       THEN ViewerEvent(PointerOp(viewer, TRUE, lay), "handlePointerMove",
                        HandlerCalls("handlePointerMove",
                                     GetScrollToLeftCalls(viewer, lay, now), None, now),
                        ScrollByCall("instant", Some(-1 * movementX)))
       ELSE /\ viewer' = [viewer EXCEPT !.events = @ + 1]
            /\ last' = [NoCall EXCEPT !.op = "handlePointerMove.ignored"]
            /\ UNCHANGED <<imageVars, hookVars, workerVars, windowFns, nodeEnv,
                           isEnabled, measurements, now, tasks, pages, collectorVars,
                           hist>>

\* pointerup on the scroll view
HandlePointerUp(lay) ==
  ViewerEvent(PointerOp(viewer, FALSE, lay), "handlePointerUp",
              HandlerCalls("handlePointerUp", GetScrollToLeftCalls(viewer, lay, now),
                           None, now),
              None)

\* scroll on the scroll view
HandleScroll(lay) ==
  ViewerEvent(PointerOp(viewer, viewer.isPressed, lay), "handleScroll",
              HandlerCalls("handleScroll", GetScrollToLeftCalls(viewer, lay, now),
                           None, now),
              None)

\* the ResizeObserver hands its entries to handleResize
HandleResize(entries) ==
  LET r == HandleResizeOp(viewer, entries)
  IN  /\ viewer.observing
      /\ ViewerEvent(r.v, IF r.requested THEN "handleResize.frame" ELSE "handleResize",
                     HandlerCalls("handleResize", <<>>,
                                  Some([widthChanged |-> r.widthChanged]), now),
                     None)

\* the browser runs a requestAnimationFrame callback of handleResize: an
\* instant scrollBy by what getScrollToLeft returns
FrameCallback(lay) ==
  /\ viewer.frames > 0
  /\ viewer' = [viewer EXCEPT !.frames = @ - 1]
  /\ measurements' = TrackerCalls(measurements, isEnabled,
                                  GetScrollToLeftCalls(viewer, lay, now))
  /\ last' = [NoCall EXCEPT !.op = "frame.scrollBy", !.name = "getScrollToLeft",
                            !.ret = ScrollByCall("instant",
                                                 GetScrollToLeft(viewer.pageCountParView,
                                                                 viewer.pageWidth, lay))]
  /\ UNCHANGED <<imageVars, hookVars, workerVars, windowFns, nodeEnv, isEnabled, now,
                 tasks, pages, collectorVars, hist>>

\* one run of handleScrollEnd on the closure v
HandleScrollEndRun(v, how) ==
  LET r == HandleScrollEndOp(v)
  IN  /\ r.status = "deferred" => v.nextHandle <= MaxScrollTimers
      /\ viewer' = r.v
      /\ measurements' = TrackerCalls(measurements, isEnabled,
                                      HandlerCalls("handleScrollEnd", <<>>,
                                                   Some([status |-> r.status]), now))
      /\ last' = [NoCall EXCEPT !.op = how \o "." \o r.status,
                                !.name = "handleScrollEnd", !.ret = r.scrollBy]
      /\ UNCHANGED <<imageVars, hookVars, workerVars, windowFns, nodeEnv, isEnabled,
                     now, tasks, pages, collectorVars, hist>>

\* the scroll view dispatches scrollend to the listener
ScrollEnd ==
  /\ ~viewer.aborted
  /\ viewer.events < MaxViewerEvents
  /\ HandleScrollEndRun([viewer EXCEPT !.events = @ + 1], "scrollend")

\* a later turn of the event loop runs the timeout with handle h
ScrollEndTimeout(h) ==
  /\ h \in viewer.pending
  /\ HandleScrollEndRun([viewer EXCEPT !.pending = @ \ {h}], "timeout")

\* the effect's cleanup
ViewerCleanup ==
  /\ ~viewer.aborted
  /\ viewer' = AbortOp(viewer)
  /\ last' = [NoCall EXCEPT !.op = "abort"]
  /\ UNCHANGED <<imageVars, hookVars, workerVars, windowFns, nodeEnv, isEnabled,
                 measurements, now, tasks, pages, collectorVars, hist>>

----------------------------------------------------------------------------
(* Specifications *)

\* the tracker under direct calls
Next ==
  \/ Tick
  \/ \E name \in Names, metadata \in MetaInputs : Start(name, metadata)
  \/ \E name \in Names, metadata \in EndMetaInputs : End(name, metadata)
  \/ \E name \in Names, metadata \in MeasureMetaInputs, d \in 0..MaxFnTime,
        o \in FnOutcomes : Measure(name, metadata, d, o)
  \/ Clear
  \/ PrintReport

Spec == Init /\ [][Next]_vars

\* the tracker around asynchronous operations
AsyncNext ==
  \/ Tick
  \/ \E t \in TaskIds, name \in AsyncNames, metadata \in MeasureMetaInputs :
        MeasureAsyncCall(t, name, metadata)
  \/ \E t \in TaskIds, o \in AsyncOutcomes : FnSettle(t, o)
  \/ \E t \in TaskIds : MeasureAsyncResume(t)
  \/ \E name \in AsyncNames : End(name, None)
  \/ Clear

AsyncSpec == Init /\ [][AsyncNext]_vars

\* every tracker operation, with the tracker disabled
InitDisabled ==
  /\ Init
  /\ nodeEnv # "development"

DisabledNext ==
  \/ Next
  \/ \E t \in TaskIds, name \in AsyncNames, metadata \in MeasureMetaInputs :
        MeasureAsyncCall(t, name, metadata)
  \/ \E t \in TaskIds, o \in AsyncOutcomes : FnSettle(t, o)
  \/ \E t \in TaskIds : MeasureAsyncResume(t)

DisabledSpec == InitDisabled /\ [][DisabledNext]_vars

\* the tracker as ComicViewerPage drives it
PageEffectOutcomes == {"ok", "noCanvas", "decryptThrows"}

ViewerNext ==
  \/ Tick
  \/ \E p \in PageIds : PageEffectBegin(p)
  \/ \E p \in PageIds, ok \in BOOLEAN : DecodeSettle(p, ok)
  \/ \E p \in PageIds, how \in PageEffectOutcomes, d \in 0..MaxFnTime :
        PageEffectResume(p, how, d)
  \/ Clear

ViewerSpec == Init /\ [][ViewerNext]_vars

\* the three collectors side by side
Browsers ==
  {DefaultEnv,
   [hasObserverApi |-> FALSE, fail |-> "none", fcp |-> Some(1800), nav |-> None],
   [hasObserverApi |-> TRUE, fail |-> "observe", fcp |-> Some(1800),
    nav |-> Some([requestStart |-> 10, responseStart |-> 811])],
   [hasObserverApi |-> TRUE, fail |-> "construct", fcp |-> None, nav |-> None],
   [hasObserverApi |-> TRUE, fail |-> "none", fcp |-> Some(1801), nav |-> None]}

CollectorInit ==
  /\ ImagesIdle
  /\ TrackerConstructed
  /\ \E b \in Browsers : CollectorsConstructed(nodeEnv, b)

PerformanceEntry(type, startTime, value, processingStart, hadRecentInput, sources) ==
  [entryType |-> type, startTime |-> startTime, value |-> value,
   processingStart |-> processingStart, hadRecentInput |-> hadRecentInput,
   sources |-> sources]

\* a layout shift of the given score (thousandths) that happens now
LayoutShiftEntry(value, hadRecentInput, sources) ==
  PerformanceEntry("layout-shift", now, value, 0, hadRecentInput, sources)

VitalsEntries ==
  {PerformanceEntry("largest-contentful-paint", 2501, 0, 0, FALSE, None),
   PerformanceEntry("first-input", 20, 0, 120, FALSE, None),
   LayoutShiftEntry(100, FALSE, None),
   LayoutShiftEntry(100, TRUE, None)}

ShiftEntries ==
  {LayoutShiftEntry(100, FALSE, Some(<<1>>)),
   LayoutShiftEntry(10, FALSE, Some(<<2, 3>>)),
   LayoutShiftEntry(10, FALSE, None),
   LayoutShiftEntry(100, TRUE, Some(<<1>>))}

\* the clock stands still here: no clear() reads it
\* window.perfClear(); last.ret tells how many tracker records it removed
PerfClear ==
  /\ "perfClear" \in windowFns
  /\ measurements' = PerfClearOp(measurements, metrics, shifts).measurements
  /\ metrics' = PerfClearOp(measurements, metrics, shifts).metrics
  /\ shifts' = PerfClearOp(measurements, metrics, shifts).shifts
  /\ dropped' = [vitals |-> (metrics # <<>>), analyzer |-> (shifts # <<>>)]
  /\ last' = [NoCall EXCEPT !.op = "perfClear", !.ret = Some(Len(measurements)),
                            !.printed = PerfClearLog]
  /\ hist' = [n \in AllNames |-> HistClear(hist[n])]
  /\ UNCHANGED <<viewerVars, imageVars, hookVars, workerVars, windowFns, nodeEnv, isEnabled, now, tasks, pages, vitalsObserver,
                 shiftObserver, analyzerEnabled, browser, wallSkew, teardown>>

\* PerformanceMonitor: the overlay's Clear button; the component renders
\* nothing outside development
HandleClear ==
  /\ nodeEnv = "development"
  /\ measurements' = ClearOp(measurements)
  /\ last' = [NoCall EXCEPT !.op = "handleClear"]
  /\ hist' = [n \in AllNames |-> HistClear(hist[n])]
  /\ UNCHANGED <<viewerVars, imageVars, hookVars, workerVars, windowFns, nodeEnv, isEnabled, now, tasks, pages, collectorVars>>

DebugNext ==
  \/ \E name \in AsyncNames : Start(name, None)
  \/ \E name \in AsyncNames : End(name, None)
  \/ \E e \in VitalsEntries : VitalsObserve(<<e>>)
  \/ \E e \in ShiftEntries : AnalyzerObserve(<<e>>)
  \/ PerfClear
  \/ HandleClear

DebugSpec == CollectorInit /\ [][DebugNext]_vars

WorkerNext ==
  \/ \E ok \in BOOLEAN : InitWorker(ok)
  \/ \E t \in WorkerTaskIds, k \in CacheKeys : ProcessImageWithWorker(t, k)
  \/ \E t \in WorkerTaskIds, isError \in BOOLEAN : WorkerReply(t, isError)
  \/ TimeoutFire

\* the event loop runs every timeout that was set; the worker owes no reply
WorkerSpec == Init /\ [][WorkerNext]_vars /\ WF_vars(TimeoutFire)

RenderNext ==
  \/ Tick
  \/ \E c \in Components, depsChanged \in BOOLEAN : Render(c, depsChanged)
  \/ \E c \in Components : RenderEffect(c)

RenderSpec == Init /\ [][RenderNext]_vars

EffectNext ==
  \/ Tick
  \/ \E d \in 0..MaxFnTime, o \in FnOutcomes : EffectRun("sync", d, o)
  \/ \E t \in TaskIds : AsyncEffectRun(t, "load")
  \/ \E t \in TaskIds, o \in AsyncOutcomes : FnSettle(t, o)
  \/ \E t \in TaskIds : AsyncEffectResume(t)

EffectSpec == Init /\ [][EffectNext]_vars

StateNext ==
  \/ Tick
  \/ \E k \in 1..2 : SetterCalls("count", k)
  \/ StateEndTimer("count")
  \/ Clear

\* the event loop runs every timeout that was set
StateSpec == Init /\ [][StateNext]_vars /\ WF_vars(StateEndTimer("count"))

\* the page has loaded no image yet, or one less than the limit
CacheInit ==
  /\ TrackerConstructed
  /\ CollectorsConstructed(nodeEnv, DefaultEnv)
  /\ imageHook \in ImageHooks
  /\ \E n \in {0, CacheLimit(imageHook) - 1} :
        imageCache = CacheAfterLoads(imageHook, n)
  /\ loads = [l \in LoadSlots |-> NoLoad]
  /\ loadsBegun = 0

CacheNext ==
  \/ \E l \in LoadSlots, k \in LoadKeys(CacheLimit(imageHook), imageCache), useWorker \in BOOLEAN :
        LoadBegin(l, k, useWorker)
  \/ \E l \in LoadSlots, how \in {"sync", "offscreen", "worker", "workerFails"} :
        LoadFinish(l, how)
  \/ \E l \in LoadSlots : LoadFail(l)
  \/ \E l \in LoadSlots, ok \in BOOLEAN : LoadBlobSettle(l, ok)
  \/ \E l \in LoadSlots : LoadReaderLoad(l)
  \/ \E l \in LoadSlots : LoadWorkerSettled(l)
  \/ \E l \in LoadSlots : LoadResume(l)
  \/ \E t \in WorkerTaskIds, isError \in BOOLEAN : WorkerReply(t, isError)
  \/ TimeoutFire

CacheSpec == CacheInit /\ [][CacheNext]_vars

ScrollNext ==
  \/ Tick
  \/ \E lay \in ViewerLayouts : HandlePointerDown(lay)
  \/ \E lay \in ViewerLayouts, movementX \in PointerMovements :
        HandlePointerMove(lay, movementX)
  \/ \E lay \in ViewerLayouts : HandlePointerUp(lay)
  \/ \E lay \in ViewerLayouts : HandleScroll(lay)
  \/ \E w \in ResizeWidths : HandleResize(<<w>>)
  \/ \E lay \in ViewerLayouts : FrameCallback(lay)
  \/ ScrollEnd
  \/ \E h \in 1..MaxScrollTimers : ScrollEndTimeout(h)
  \/ ViewerCleanup

ScrollSpec == Init /\ [][ScrollNext]_vars

CollectorNext ==
  \/ \E name \in AsyncNames : Start(name, None)
  \/ \E name \in AsyncNames : End(name, None)
  \/ Clear
  \/ \E e \in VitalsEntries : VitalsObserve(<<e>>)
  \/ VitalsClear
  \/ \E e \in ShiftEntries : AnalyzerObserve(<<e>>)
  \/ AnalyzerClear

CollectorSpec == CollectorInit /\ [][CollectorNext]_vars

\* the two observing collectors fed by the browser, up to their teardown
InputShift == LayoutShiftEntry(100, TRUE, Some(<<1>>))
PlainShift == LayoutShiftEntry(100, FALSE, Some(<<1>>))

VitalsBatches ==
  {<<e>> : e \in VitalsEntries} \cup {<<InputShift, PlainShift>>, <<PlainShift, InputShift>>}

ShiftBatches ==
  {<<e>> : e \in ShiftEntries} \cup {<<InputShift, PlainShift>>, <<PlainShift, InputShift>>}

ObserveNext ==
  \/ \E entries \in VitalsBatches : VitalsObserve(entries)
  \/ \E entries \in ShiftBatches : AnalyzerObserve(entries)
  \/ VitalsClear
  \/ AnalyzerClear
  \/ VitalsDestroy
  \/ AnalyzerDestroy

ObserveSpec == CollectorInit /\ [][ObserveNext]_vars

\* the analyzer over a span of time longer than its window
AnalyzerShifts ==
  {LayoutShiftEntry(100, FALSE, Some(<<1>>)),
   LayoutShiftEntry(10, FALSE, Some(<<2, 3>>)),
   LayoutShiftEntry(30, FALSE, Some(<<1, 2>>)),
   LayoutShiftEntry(10, FALSE, None),
   LayoutShiftEntry(100, TRUE, Some(<<1>>))}

AnalyzerNext ==
  \/ Tick
  \/ WindowPasses
  \/ LateTick
  \/ \E e \in AnalyzerShifts : AnalyzerObserve(<<e>>)
  \/ GetTotalScoreCall
  \/ GetShiftsByElementCall
  \/ AnalyzerPrintReportCall
  \/ AnalyzerClear

AnalyzerSpec == Init /\ [][AnalyzerNext]_vars

\* the vitals collector fed with values at and next to the rating thresholds
AroundThresholds(good, fair) == {good, good + 1, fair, fair + 1}

RatingBrowsers ==
  [hasObserverApi : {TRUE}, fail : {"none"},
   fcp : {None} \cup {Some(v) : v \in AroundThresholds(1800, 3000)},
   nav : {None} \cup {Some([requestStart |-> 10, responseStart |-> 10 + v]) :
                        v \in AroundThresholds(800, 1800)}]

RatingEntries ==
  {PerformanceEntry("largest-contentful-paint", v, 0, 0, FALSE, None) :
     v \in AroundThresholds(2500, 4000)}
  \cup {PerformanceEntry("first-input", 20, 0, 20 + v, FALSE, None) :
          v \in AroundThresholds(100, 300)}
  \cup {LayoutShiftEntry(v, FALSE, None) : v \in AroundThresholds(100, 250)}
  \cup {LayoutShiftEntry(251, TRUE, None)}

RatingInit ==
  /\ ImagesIdle
  /\ TrackerConstructed
  /\ nodeEnv = "production"
  /\ \E b \in RatingBrowsers : CollectorsConstructed(nodeEnv, b)

RatingNext ==
  \/ \E e \in RatingEntries : VitalsObserve(<<e>>)
  \/ VitalsClear

RatingSpec == RatingInit /\ [][RatingNext]_vars

\* the vitals collector's history over time, the system clock being settable
LatestEntries ==
  {PerformanceEntry("largest-contentful-paint", 2500, 0, 0, FALSE, None),
   PerformanceEntry("largest-contentful-paint", 2501, 0, 0, FALSE, None),
   LayoutShiftEntry(100, FALSE, None)}

LatestNext ==
  \/ Tick
  \/ \E skew \in 0..MaxSkew : ClockAdjust(skew)
  \/ \E e \in LatestEntries : VitalsObserve(<<e>>)
  \/ GetLatestMetricsCall
  \/ VitalsClear

LatestSpec == Init /\ [][LatestNext]_vars

----------------------------------------------------------------------------
(* Properties of the interval tracker *)

\* the records of a name in a Map
RecordsOf(ms, name) == {i \in 1..Len(ms) : ms[i].name = name}

\* a step that is one direct end() call
EndStep == last'.op = "end" /\ now' = now

\* C1: measure(name, fn) calls end(name) exactly once, and gives the caller
\* what fn gave: fn's result when fn returns, the very value fn threw when it
\* throws (end being called with the error metadata before the rethrow).
C1_MeasureTransparent ==
  last.op = "measure" =>
    /\ Len(last.ends) = 1
    /\ last.ends[1].name = last.name
    /\ last.out = last.fn
    /\ last.fn.kind = "throw" => last.ends[1].metadata = ErrorMeta(last.fn.error)
    /\ last.fn.kind = "return" => last.ends[1].metadata = None

C1_Witness ==
  /\ last.op = "measure"
  /\ last.fn.kind = "throw"
  /\ last.fn.error.kind = "number"
  /\ last.out = last.fn
  /\ Len(last.ends) = 1
  /\ last.ends[1].ret # None

\* C2: after measure(name, fn) in which fn throws, the tracker (enabled) holds
\* a completed record of the name whose stored metadata has the error entry,
\* the merge of the start metadata and the end metadata.
C2_ErrorMetadataStored ==
  (isEnabled /\ last.op = "measure" /\ last.fn.kind = "throw") =>
    \E i \in 1..Len(GetReport(measurements)) :
      LET m == GetReport(measurements)[i]
      IN  /\ m.name = last.name
          /\ "error" \in DOMAIN Spread(m.metadata)

\* C3: end(name) for a name that was never started, or whose record clear()
\* removed, returns null and leaves the Map and the report as they were.
C3_EndWithoutStart ==
  [][(EndStep /\ ~hist[last'.name].live) =>
       /\ last'.ret = None
       /\ measurements' = measurements
       /\ GetReport(measurements') = GetReport(measurements)]_vars

C3_Witness ==
  /\ isEnabled
  /\ last.op = "end"
  /\ last.ret = None
  /\ hist[last.name].ever
  /\ ~hist[last.name].live
  /\ measurements # <<>>

\* C4: end(name) is a no-op whenever the name has no unterminated record, also
\* when an earlier end() already completed it: it returns null and leaves the
\* Map (the record's endTime and duration) as it was.
C4_EndNoOpUnlessOpen ==
  [][(EndStep /\ (~hist[last'.name].live \/ hist[last'.name].ends >= 1)) =>
       /\ last'.ret = None
       /\ measurements' = measurements]_vars

\* C5: with the tracker enabled, start(name) then end(name) with no other
\* start/end/clear of the name in between returns
\* (clock at end) - (clock at start) >= 0, and the report then holds exactly
\* one record of the name, with that duration = endTime - startTime.
C5_StartEndDuration ==
  [][(EndStep /\ isEnabled /\ hist[last'.name].live /\ hist[last'.name].ends = 0) =>
       LET n == last'.name
           d == now - hist[n].t
           report == GetReport(measurements')
       IN  /\ d >= 0
           /\ last'.ret = Some(d)
           /\ Cardinality(RecordsOf(report, n)) = 1
           /\ \A i \in RecordsOf(report, n) :
                /\ report[i].duration = Some(d)
                /\ report[i].endTime[1] - report[i].startTime = d]_vars

C5_Witness ==
  /\ isEnabled
  /\ last.op = "end"
  /\ hist[last.name].live
  /\ hist[last.name].ends = 1
  /\ last.ret = Some(2)
  /\ Len(GetReport(measurements)) = 2

\* C6: with the tracker enabled, start(name, m1); start(name, m2); end(name)
\* leaves one record of the name, completed, with the second start's
\* startTime and metadata; a further end(name) still finds that one record
\* and measures from the second start, never from the first.
C6_LastStartWins ==
  [][(EndStep /\ isEnabled /\ hist[last'.name].live /\ hist[last'.name].stacked = 2) =>
       LET n == last'.name
       IN  /\ Cardinality(RecordsOf(measurements', n)) = 1
           /\ \A i \in RecordsOf(measurements', n) :
                /\ measurements'[i].duration # None
                /\ measurements'[i].startTime = hist[n].t
                /\ measurements'[i].metadata = hist[n].meta
           /\ last'.ret = Some(now - hist[n].t)]_vars

C6_Witness ==
  /\ isEnabled
  /\ last.op = "end"
  /\ hist[last.name].stacked = 2
  /\ hist[last.name].ends = 2
  /\ hist[last.name].t = 1
  /\ hist[last.name].meta # None
  /\ last.ret = Some(1)

\* C7: measureAsync(name, fn) makes no end() call until fn's promise has
\* settled and exactly one after it; its own promise then settles as fn's
\* did: fulfilled with the same value, or rejected with the same reason after
\* end() was called with the error metadata.
C7_EndAfterSettle ==
  /\ \A t \in TaskIds : tasks[t].st \in {"awaiting", "settled"} => tasks[t].ends = <<>>
  /\ last.op = "measureAsync" =>
       /\ Len(last.ends) = 1
       /\ last.ends[1].name = last.name
       /\ last.out = last.fn
       /\ last.fn.kind = "throw" => last.ends[1].metadata = ErrorMeta(last.fn.error)
       /\ last.fn.kind = "return" => last.ends[1].metadata = None

C7_Witness ==
  /\ isEnabled
  /\ last.op = "measureAsync"
  /\ last.fn.kind = "throw"
  /\ last.out = last.fn
  /\ Len(last.ends) = 1
  /\ last.ends[1].ret # None
  /\ \E t \in TaskIds : tasks[t].st = "awaiting"

\* C8: with NODE_ENV other than 'development', whatever calls were made the
\* Map is empty, the report is empty, every end() returned null, printReport()
\* printed nothing, and measure/measureAsync gave the caller what fn gave.
C8_DisabledNoOp ==
  ~isEnabled =>
    /\ measurements = <<>>
    /\ GetReport(measurements) = <<>>
    /\ last.op = "end" => last.ret = None
    /\ \A i \in 1..Len(last.ends) : last.ends[i].ret = None /\ last.ends[i].logged = None
    /\ \A t \in TaskIds : \A i \in 1..Len(tasks[t].ends) : tasks[t].ends[i].ret = None
    /\ last.op \in {"measure", "measureAsync"} => last.out = last.fn
    /\ last.printed = <<>>

C8_Witness ==
  /\ ~isEnabled
  /\ last.op = "measureAsync"
  /\ last.fn.kind = "throw"
  /\ Len(last.ends) = 1
  /\ hist["A"].ever
  /\ hist["B"].ever
  /\ \E t \in TaskIds : tasks[t].st = "awaiting"

\* C9: in every state getReport() is exactly the records of the Map whose
\* duration is defined, in Map order; a name whose latest start() has had no
\* end() since (its operation is pending, failed before its end(), or never
\* settled) has no record in the report.
C9_ReportIsCompleted ==
  LET report == GetReport(measurements)
      done == {i \in 1..Len(measurements) : measurements[i].duration # None}
  IN  /\ Len(report) = Cardinality(done)
      /\ \A j \in 1..Len(report) :
           /\ report[j].duration # None
           /\ \E i \in done : measurements[i] = report[j]
      /\ \A n \in AllNames :
           (hist[n].ever /\ hist[n].ends = 0) => RecordsOf(report, n) = {}

C9_Witness ==
  /\ isEnabled
  /\ \E p \in PageIds :
       /\ pages[p] = "decoding"
       /\ hist[PageName(p)].ends = 0
       /\ RecordsOf(measurements, PageName(p)) # {}
       /\ RecordsOf(measurements, DecodeName(p)) # {}
       /\ RecordsOf(GetReport(measurements), DecryptName(p)) # {}
       /\ Len(GetReport(measurements)) = 1

----------------------------------------------------------------------------
(* Properties across the collectors *)

\* C10: right after clear() a collector's outputs are empty, whatever came
\* before: the tracker's getReport() is [] and no record is left, pending ones
\* included; the vitals collector's getMetrics() is [] and getLatestMetrics()
\* is {}; the analyzer's getShiftsByElement() is {} and getTotalScore() is 0.
C10_ClearEmpties ==
  /\ last.op = "clear" =>
        measurements = <<>> /\ GetReport(measurements) = <<>>
  /\ last.op = "vitals.clear" =>
        GetMetrics(metrics) = <<>> /\ DOMAIN GetLatestMetrics(metrics) = {}
  /\ last.op = "analyzer.clear" =>
        DOMAIN GetShiftsByElement(shifts) = {} /\ GetTotalScore(shifts, now) = 0

\* all three collectors held records when they were cleared, the tracker last
C10_Witness ==
  /\ last.op = "clear"
  /\ \E n \in AllNames : hist[n].ever /\ ~hist[n].live
  /\ dropped.vitals /\ metrics = <<>>
  /\ dropped.analyzer /\ shifts = <<>>
  /\ measurements = <<>>

----------------------------------------------------------------------------
(* Properties of the observing collectors *)

\* the entries of a list that satisfy a test
CountOf(entries, Test(_)) == Cardinality({i \in 1..Len(entries) : Test(entries[i])})

IsPlainShift(entry) == entry.entryType = "layout-shift" /\ ~entry.hadRecentInput

IsVital(entry) ==
  \/ entry.entryType \in {"largest-contentful-paint", "first-input"}
  \/ IsPlainShift(entry)

\* C11: a layout-shift entry with hadRecentInput = true adds no record to the
\* analyzer's shifts nor to the vitals collector's history, one with
\* hadRecentInput = false adds exactly one to each, and every stored shift has
\* hadRecentInput = false.
C11_InputShiftsIgnored ==
  [][/\ \A entries \in ShiftBatches :
          AnalyzerObserve(entries) =>
            Len(shifts') = Len(shifts) + CountOf(entries, IsPlainShift)
     /\ \A entries \in VitalsBatches :
          VitalsObserve(entries) =>
            Len(metrics') = Len(metrics) + CountOf(entries, IsVital)
     /\ \A i \in 1..Len(shifts') : ~shifts'[i].hadRecentInput]_vars

\* both collectors were fed, the vitals collector last with a list holding a
\* shift after recent input and one without
C11_Witness ==
  /\ last.op = "vitals.observe"
  /\ last.entries = <<InputShift, PlainShift>>
  /\ Len(metrics) = 1 /\ metrics[1].name = "CLS"
  /\ Len(shifts) = 1

\* the sum of the scores of the shifts at the given positions
RECURSIVE ScoreSum(_, _)
ScoreSum(ss, S) ==
  IF S = {} THEN 0
  ELSE LET i == CHOOSE x \in S : TRUE IN ss[i].score + ScoreSum(ss, S \ {i})

\* C12: getTotalScore() at time now gives the sum of the scores of exactly the
\* stored shifts with timestamp >= now - 5000 (those with timestamp < now - 5000
\* are left out), and removes nothing from the stored sequence.
C12_WindowedTotal ==
  [][GetTotalScoreCall =>
       /\ last'.ret = Some(ScoreSum(shifts, {i \in 1..Len(shifts) :
                                               shifts[i].timestamp >= now - ShiftWindowMs}))
       /\ shifts' = shifts]_vars

\* getTotalScore() was called with one shift exactly 5000 ms old and one older:
\* the first is counted, the second is not, both are still stored
C12_Witness ==
  /\ last.op = "analyzer.getTotalScore"
  /\ Len(shifts) = 2
  /\ shifts[1].timestamp < now - ShiftWindowMs
  /\ shifts[2].timestamp = now - ShiftWindowMs
  /\ shifts[1].score > 0
  /\ last.ret = Some(shifts[2].score)

\* the (shift, source) positions of a shift sequence, and the selector of one
SourcePairs(ss) ==
  UNION {{<<i, j>> : j \in 1..Len(ss[i].sources)} : i \in 1..Len(ss)}

\* the sum, over (shift, source) positions, of the scores of their shifts
RECURSIVE PairScoreSum(_, _)
PairScoreSum(ss, P) ==
  IF P = {} THEN 0
  ELSE LET pr == CHOOSE x \in P : TRUE IN ss[pr[1]].score + PairScoreSum(ss, P \ {pr})

SelectorAt(ss, pr) == GetElementSelector(Elements[ss[pr[1]].sources[pr[2]]])

\* C13: getShiftsByElement() aggregates over the whole stored history, shifts
\* older than the 5000 ms window included: its selectors are those of the
\* stored sources; per selector, count is the number of (shift, source) pairs
\* mapping to it (at least 1), totalScore the sum of the owning shifts' scores
\* over those pairs and avgScore = totalScore / count; a shift without sources
\* adds to no selector; the call removes nothing.
C13_ByElementWholeHistory ==
  [][GetShiftsByElementCall =>
       LET result == last'.table[1]
           pairs == SourcePairs(shifts)
       IN  /\ DOMAIN result = {SelectorAt(shifts, pr) : pr \in pairs}
           /\ \A sel \in DOMAIN result :
                 LET mine == {pr \in pairs : SelectorAt(shifts, pr) = sel}
                 IN  /\ result[sel].count = Cardinality(mine)
                     /\ result[sel].count >= 1
                     /\ result[sel].totalScore = PairScoreSum(shifts, mine)
                     /\ result[sel].avgScore =
                          [num |-> result[sel].totalScore, den |-> result[sel].count]
           /\ shifts' = shifts]_vars

\* getShiftsByElement() was called with a shift older than the window whose two
\* sources share a selector, and a shift without sources
C13_Witness ==
  /\ last.op = "analyzer.getShiftsByElement"
  /\ Len(shifts) = 2
  /\ shifts[1].timestamp < now - ShiftWindowMs
  /\ shifts[1].sources = <<2, 3>>
  /\ shifts[2].sources = <<>>
  /\ DOMAIN last.table[1] = {"section.list > div.card.wide"}
  /\ last.table[1]["section.list > div.card.wide"].count = 2
  /\ last.table[1]["section.list > div.card.wide"].totalScore = 2 * shifts[1].score

\* the thresholds (good, needs-improvement) of each metric name; CLS in
\* thousandths
RatingBounds ==
  [LCP |-> <<2500, 4000>>, FID |-> <<100, 300>>, CLS |-> <<100, 250>>,
   FCP |-> <<1800, 3000>>, TTFB |-> <<800, 1800>>]

\* C14: every recorded metric carries the rating of its own name's thresholds
\* (g, n) applied to its value: good iff v <= g, needs-improvement iff
\* g < v <= n, poor iff v > n; the values g and n fall in the better tier.
C14_RatingByThresholds ==
  \A i \in 1..Len(metrics) :
    LET m == metrics[i]
        g == RatingBounds[m.name][1]
        n == RatingBounds[m.name][2]
    IN  /\ m.name \in DOMAIN RatingBounds
        /\ (m.rating = "good") <=> (m.value <= g)
        /\ (m.rating = "needs-improvement") <=> (g < m.value /\ m.value <= n)
        /\ (m.rating = "poor") <=> (m.value > n)

\* a CLS of exactly 0.1 was recorded as good next to a TTFB just above 1800
\* recorded as poor
C14_Witness ==
  /\ Len(metrics) = 2
  /\ metrics[1].name = "TTFB" /\ metrics[1].value = 1801 /\ metrics[1].rating = "poor"
  /\ metrics[2].name = "CLS" /\ metrics[2].value = 100 /\ metrics[2].rating = "good"

\* the largest element of a non-empty set of numbers
MaxOf(S) == CHOOSE x \in S : \A y \in S : y <= x

\* C15: getLatestMetrics() has exactly one entry per metric name present in
\* the history and none for absent names; the entry is a record of that name
\* whose timestamp is the largest among the name's records, wherever in the
\* history that record stands.
C15_LatestPerName ==
  [][GetLatestMetricsCall =>
       LET result == last'.table[1]
       IN  /\ DOMAIN result = {metrics[i].name : i \in 1..Len(metrics)}
           /\ \A n \in DOMAIN result :
                 /\ \E i \in 1..Len(metrics) : result[n] = metrics[i]
                 /\ result[n].name = n
                 /\ result[n].timestamp =
                      MaxOf({metrics[i].timestamp :
                               i \in {j \in 1..Len(metrics) : metrics[j].name = n}})]_vars

\* getLatestMetrics() was called on a history whose first LCP record is newer
\* than its second, and gave the first
C15_Witness ==
  /\ last.op = "vitals.getLatestMetrics"
  /\ Len(metrics) = 2
  /\ metrics[1].name = "LCP" /\ metrics[2].name = "LCP"
  /\ metrics[1].timestamp > metrics[2].timestamp
  /\ last.table[1]["LCP"] = metrics[1]
  /\ metrics[1] # metrics[2]

\* C16: destroy() is idempotent on both observing collectors: the first call
\* disconnects the observer (when there is one) and sets the handle to null,
\* every later call changes nothing, so disconnect() is invoked at most once,
\* and no record is appended by a collector after its destroy().
C16_DestroyIdempotent ==
  [][/\ teardown'.vitals.disconnects <= 1
     /\ teardown'.analyzer.disconnects <= 1
     /\ teardown'.vitals.calls >= 1 => vitalsObserver' = "null"
     /\ teardown'.analyzer.calls >= 1 => shiftObserver' = "null"
     /\ (VitalsDestroy /\ teardown.vitals.calls = 0) =>
          teardown'.vitals.disconnects = (IF vitalsObserver = "null" THEN 0 ELSE 1)
     /\ (AnalyzerDestroy /\ teardown.analyzer.calls = 0) =>
          teardown'.analyzer.disconnects = (IF shiftObserver = "null" THEN 0 ELSE 1)
     /\ (VitalsDestroy /\ teardown.vitals.calls >= 1) =>
          UNCHANGED <<metrics, vitalsObserver, shifts, shiftObserver>>
          /\ teardown'.vitals.disconnects = teardown.vitals.disconnects
     /\ (AnalyzerDestroy /\ teardown.analyzer.calls >= 1) =>
          UNCHANGED <<metrics, vitalsObserver, shifts, shiftObserver>>
          /\ teardown'.analyzer.disconnects = teardown.analyzer.disconnects
     /\ teardown.vitals.calls >= 1 => Len(metrics') <= Len(metrics)
     /\ teardown.analyzer.calls >= 1 => Len(shifts') <= Len(shifts)]_vars

\* both collectors recorded, were destroyed twice and disconnected once
C16_Witness ==
  /\ teardown.vitals.calls = 2 /\ teardown.vitals.disconnects = 1
  /\ teardown.analyzer.calls = 2 /\ teardown.analyzer.disconnects = 1
  /\ metrics # <<>> /\ shifts # <<>>
  /\ vitalsObserver = "null" /\ shiftObserver = "null"

\* C17: when creating or subscribing the observer throws, both constructors
\* still complete: the collector is left non-observing, the analyzer's
\* accessors give empty and zero results, the vitals collector holds exactly
\* its one-time FCP/TTFB derivation (until cleared) and nothing from the
\* observer, and clear() and destroy() work.
C17_FailedSetupDegrades ==
  (browser.hasObserverApi /\ browser.fail # "none") =>
    /\ vitalsObserver # "observing" /\ shiftObserver # "observing"
    /\ shifts = <<>>
    /\ GetTotalScore(shifts, now) = 0
    /\ DOMAIN GetShiftsByElement(shifts) = {}
    /\ last.op = "none" =>
          /\ metrics = MeasureInitialMetrics(<<>>, browser, DateNow(now, wallSkew))
          /\ Len(metrics) = (IF browser.fcp = None THEN 0 ELSE 1)
                             + (IF browser.nav = None THEN 0 ELSE 1)
    /\ GetMetrics(metrics) \in {MeasureInitialMetrics(<<>>, browser, 0), <<>>}
    /\ DOMAIN GetLatestMetrics(metrics) \subseteq {"FCP", "TTFB"}
    /\ dropped.vitals => metrics = <<>>
    /\ teardown.vitals.calls >= 1 => vitalsObserver = "null"
    /\ teardown.analyzer.calls >= 1 => shiftObserver = "null"

\* in development observe() threw in both constructors; FCP and TTFB were
\* derived all the same, and the vitals collector was cleared and destroyed,
\* the analyzer destroyed
C17_Witness ==
  /\ nodeEnv = "development"
  /\ browser.hasObserverApi /\ browser.fail = "observe"
  /\ browser.fcp # None /\ browser.nav # None
  /\ dropped.vitals
  /\ teardown.vitals.calls >= 1 /\ teardown.vitals.disconnects = 1
  /\ teardown.analyzer.calls >= 1

\* C18: the analyzer subscribes only when NODE_ENV is 'development' and
\* PerformanceObserver exists, so in any other mode its shift sequence is
\* always empty; the vitals collector subscribes and records whenever
\* PerformanceObserver exists, whatever the mode.
C18_AnalyzerGatedVitalsNot ==
  /\ shiftObserver = "observing" => nodeEnv = "development" /\ browser.hasObserverApi
  /\ nodeEnv # "development" => shifts = <<>> /\ shiftObserver = "null"
  /\ (nodeEnv = "development" /\ browser.hasObserverApi /\ browser.fail = "none"
      /\ teardown.analyzer.calls = 0) => shiftObserver = "observing"
  /\ (browser.hasObserverApi /\ browser.fail = "none" /\ teardown.vitals.calls = 0)
       => vitalsObserver = "observing"
  /\ vitalsObserver = "observing" => browser.hasObserverApi
  /\ last.op = "none" =>
        metrics = (IF browser.hasObserverApi
                     THEN MeasureInitialMetrics(<<>>, browser, DateNow(now, wallSkew))
                     ELSE <<>>)

\* in production the vitals collector recorded from its observer while the
\* analyzer holds nothing
C18_Witness ==
  /\ nodeEnv = "production"
  /\ last.op = "vitals.observe"
  /\ \E i \in 1..Len(metrics) : metrics[i].name = "LCP"
  /\ shifts = <<>> /\ shiftObserver = "null"

\* C19: one call of perfClear() leaves the tracker's records, the vitals
\* metric history and the analyzer's shift sequence all empty, and the five
\* debug entry points are on window in development and absent in any other
\* mode.
C19_PerfClearAllThree ==
  /\ last.op = "perfClear" =>
        /\ measurements = <<>> /\ metrics = <<>> /\ shifts = <<>>
        /\ GetReport(measurements) = <<>>
        /\ GetMetrics(metrics) = <<>>
        /\ DOMAIN GetShiftsByElement(shifts) = {}
        /\ last.printed = PerfClearLog
        /\ nodeEnv = "development"
  /\ nodeEnv # "development" => windowFns = {}
  /\ nodeEnv = "development" =>
        windowFns = {"perfReport", "perfClear", "vitalsReport", "layoutReport",
                     "fullReport"}

\* perfClear() was called while all three collectors held records
C19_Witness ==
  /\ last.op = "perfClear"
  /\ last.ret # None /\ last.ret # Some(0)
  /\ dropped.vitals /\ dropped.analyzer
  /\ measurements = <<>> /\ metrics = <<>> /\ shifts = <<>>

\* C20: every promise processImageWithWorker returned eventually settles
\* (by a reply, an error reply, or the timeout), whatever the cache keys of
\* the other calls outstanding, and a settled call has no pendingTasks entry.
C20_EveryTaskSettles ==
  /\ \A t \in WorkerTaskIds :
        (promises[t].st = "pending") ~> Settled(promises[t])
  /\ [](\A t \in WorkerTaskIds : Settled(promises[t]) =>
          \A k \in CacheKeys : pendingTasks[k] # Some(t))

\* what a step does to the calls other than t: nothing
OthersUntouched(t) ==
  \A u \in WorkerTaskIds \ {t} :
    /\ promises'[u] = promises[u]
    /\ \A k \in CacheKeys : pendingTasks[k] = Some(u) => pendingTasks'[k] = Some(u)

\* C21: an error reply to one call's message, or one call's timeout, rejects
\* only that call's promise and removes only that call's pendingTasks entry;
\* every other call's entry and promise are unchanged, a later call under the
\* same cache key included.
C21_FailureIsolated ==
  [][/\ \A t \in WorkerTaskIds : WorkerReply(t, TRUE) => OthersUntouched(t)
     /\ TimeoutFire => OthersUntouched(Head(timers))]_vars

\* C22: whenever the effect of a render cycle runs, the duration it logs is
\* (time the effect runs) - (time that render started), so it never includes
\* time from before the render began.
C22_RenderDurationPerCycle ==
  [][\A c \in Components :
       RenderEffect(c) => renderHook'[c].logged = Some(now - renderHook[c].began)]_vars

\* C23: when the effect passed to useAsyncEffectPerformance rejects, end() is
\* called for 'AsyncEffect: <name>' with error metadata, and the rejection is
\* dropped inside the adapter: no rejected promise is left without a handler,
\* nothing is thrown into the caller and no value is returned to it.
C23_RejectionDropped ==
  /\ (last.op = "asyncEffect.settled" /\ last.fn.kind = "throw") =>
        /\ Len(last.ends) = 1
        /\ last.ends[1].name = AsyncEffectName("load")
        /\ "error" \in DOMAIN Spread(last.ends[1].metadata)
  /\ effects.unhandled = {}
  /\ effects.thrown = None
  /\ effects.returned = None

\* C24: a call of the setter of useStatePerformance starts 'State Update:
\* <name>' before it hands the value to setState, and makes no end() call in
\* its own turn; the end() runs in a later turn, and every setter call is
\* eventually followed by exactly one end() call, also when several setter
\* calls happen in the same turn.
C24_SetterStartsEndFollows ==
  /\ [][\A k \in 1..2 : SetterCalls("count", k) =>
          /\ stateHook'.steps = <<"start", "setState", "setTimeout">>
          /\ stateHook'.ends = stateHook.ends
          /\ stateHook'.calls = stateHook.calls + k
          /\ stateHook'.pending = stateHook.pending + k
          /\ isEnabled =>
                \E i \in 1..Len(measurements') :
                  /\ measurements'[i].name = StateUpdateName("count")
                  /\ measurements'[i].startTime = now
                  /\ measurements'[i].duration = None]_vars
  /\ [](stateHook.calls = stateHook.ends + stateHook.pending)
  /\ \A i \in 1..MaxSetterCalls :
        (stateHook.calls >= i) ~> (stateHook.ends >= i)
  /\ <>[](stateHook.ends = stateHook.calls)

\* two setter calls were made in one turn, and both ends ran afterwards
C24_Witness ==
  /\ stateHook.calls = 2 /\ stateHook.ends = 2 /\ stateHook.pending = 0
  /\ hist[StateUpdateName("count")].stacked = 2
  /\ last.op = "stateEnd"

\* C25: in the analyzer's printReport the severity put on each element is
\* getShiftSeverity of that element's average score (low iff avg < 0.01,
\* medium iff 0.01 <= avg < 0.1, high iff avg >= 0.1), the boundary values
\* included, and the overall colour is poor iff total > 0.25,
\* needs-improvement iff 0.1 < total <= 0.25, good otherwise.
C25_ReportSeverities ==
  (last.op = "analyzer.printReport" /\ last.table # None) =>
    LET report == last.table[1]
        stats == GetShiftsByElement(shifts)
    IN  /\ \A i \in 1..Len(report.elements) :
              report.elements[i].severity =
                 GetShiftSeverity(stats[report.elements[i].selector].avgScore)
        /\ report.color = "poor" <=> report.total > 250
        /\ report.color = "needs-improvement" <=>
              (report.total > 100 /\ report.total <= 250)
        /\ report.color = "good" <=> report.total <= 100

\* C26: the tracker holds at most one record per name in every reachable
\* state, and start(name) replaces the record of the name, unterminated or
\* completed: from a start(name) to the next end(name) the only record of the
\* name is the new unterminated one and getReport() has none for the name, so
\* an earlier completed measurement is lost.
C26_OneRecordPerName ==
  /\ \A n \in AllNames : Cardinality(RecordsOf(measurements, n)) <= 1
  /\ \A n \in AllNames :
        (isEnabled /\ hist[n].live /\ hist[n].ends = 0) =>
          /\ \A i \in RecordsOf(measurements, n) :
                /\ measurements[i].duration = None
                /\ measurements[i].startTime = hist[n].t
          /\ Cardinality(RecordsOf(measurements, n)) = 1
          /\ \A i \in 1..Len(GetReport(measurements)) :
                GetReport(measurements)[i].name # n

\* start() was just called on a name whose record was completed
C26_Witness ==
  /\ isEnabled
  /\ last.op = "start"
  /\ last.over = "completed"
  /\ hist[last.name].ends = 0
  /\ hist[last.name].t >= 1
  /\ \A i \in 1..Len(GetReport(measurements)) : GetReport(measurements)[i].name # last.name

\* C27: when two measureAsync calls of one name overlap, the second start
\* replaces the first call's record; the end() of each call still finds a
\* record and returns non-null, each duration is computed from the second
\* (latest) call's startTime, and the one surviving record ends with
\* duration = (time of the later end) - (that startTime).
C27_OverlapSharesRecord ==
  [][\A t \in TaskIds :
       (/\ MeasureAsyncResume(t)
        /\ isEnabled
        /\ hist[tasks[t].name].live
        /\ hist[tasks[t].name].stacked = 2) =>
         LET n == tasks[t].name
             e == last'.ends[Len(last'.ends)]
         IN  /\ e.ret # None
             /\ e.ret = Some(now - hist[n].t)
             /\ Cardinality(RecordsOf(measurements', n)) = 1
             /\ \A i \in RecordsOf(measurements', n) :
                   /\ measurements'[i].startTime = hist[n].t
                   /\ measurements'[i].duration = Some(now - hist[n].t)]_vars

\* two calls overlapped, the second starting at 1; both have ended, the later
\* at 2, and the record says 1
C27_Witness ==
  /\ isEnabled
  /\ last.op = "measureAsync"
  /\ \A t \in TaskIds : tasks[t].st = "idle"
  /\ hist[last.name].stacked = 2
  /\ hist[last.name].ends = 2
  /\ hist[last.name].t = 1
  /\ now = 2
  /\ last.ends[1].ret = Some(1)
  /\ \A i \in RecordsOf(measurements, last.name) : measurements[i].duration = Some(1)

MinOf(S) == CHOOSE x \in S : \A y \in S : x <= y

\* C28: getLatestMetrics() replaces the record kept for a name only on a
\* strictly greater timestamp: among the records of a name that share the
\* largest timestamp, the one returned is the first appended.
C28_FirstOfLatestWins ==
  [][GetLatestMetricsCall =>
       LET result == last'.table[1]
       IN  \A n \in DOMAIN result :
             LET ofName == {j \in 1..Len(metrics) : metrics[j].name = n}
                 newest == MaxOf({metrics[j].timestamp : j \in ofName})
             IN  result[n] =
                   metrics[MinOf({j \in ofName : metrics[j].timestamp = newest})]]_vars

\* two different LCP records of the same millisecond: the first was returned
C28_Witness ==
  /\ last.op = "vitals.getLatestMetrics"
  /\ Len(metrics) = 2
  /\ metrics[1].name = "LCP" /\ metrics[2].name = "LCP"
  /\ metrics[1].timestamp = metrics[2].timestamp
  /\ metrics[1].value # metrics[2].value
  /\ last.table[1]["LCP"] = metrics[1]

CacheKeysOf(cache) == {cache[i].key : i \in 1..Len(cache)}
WithoutKey(cache, key) == SelectSeq(cache, LAMBDA e : e.key # key)

\* C29: under any interleaving of image loads the data-URL cache stays within
\* its bound (50 in the first useImage, 100 in useOptimizedImage and
\* useWorkerImage); an insertion into a full cache first evicts exactly one
\* entry, the oldest-inserted key; a cache hit neither inserts nor reorders.
C29_CacheBounded ==
  /\ [](/\ Len(imageCache) <= CacheLimit(imageHook)
        /\ CacheLimit(imageHook) = (IF imageHook = "useImage" THEN 50 ELSE 100)
        /\ Cardinality(CacheKeysOf(imageCache)) = Len(imageCache))
  /\ [][(imageCache' # imageCache \/ (loads' # loads /\ last'.op = "image.loaded")) =>
          LET key == last'.name
              full == Len(imageCache) >= CacheLimit(imageHook)
              kept == IF full THEN Tail(imageCache) ELSE imageCache
          IN  /\ last'.op = "image.loaded"
              /\ CacheKeysOf(imageCache') = CacheKeysOf(kept) \cup {key}
              /\ WithoutKey(imageCache', key) = WithoutKey(kept, key)
              /\ full => Len(imageCache') >= Len(imageCache) - 1]_vars
  /\ [][\A l \in LoadSlots, k \in LoadKeys(CacheLimit(imageHook), imageCache), w \in BOOLEAN :
          (LoadBegin(l, k, w) /\ CacheHas(imageCache, CacheKey(imageHook, k))) =>
            /\ last'.op = "image.hit"
            /\ imageCache' = imageCache
            /\ loads' = loads]_vars

\* a new image was stored in the full cache of useImage: image 1, the oldest,
\* is gone, image 2 is now the first and the cache is full again; the load
\* that filled the cache and this one have both stored, and measureAsync has
\* ended neither interval yet
C29_Witness ==
  /\ imageHook = "useImage"
  /\ last.op = "image.loaded"
  /\ last.name = CacheKey("useImage", 51)
  /\ Len(imageCache) = 50
  /\ imageCache[1].key = CacheKey("useImage", 2)
  /\ imageCache[49].key = CacheKey("useImage", 50)
  /\ imageCache[50].key = CacheKey("useImage", 51)
  /\ \A l \in LoadSlots : loads[l].st = "returned"

\* C30: a scrollend handled while the pointer is pressed issues no snap
\* scrollBy and sets a timeout that calls handleScrollEnd again; once the
\* cleanup has aborted, no such timeout runs and no scrollBy is issued,
\* however many scrollend events came while the pointer was pressed.
C30_NoScrollEndAfterAbort ==
  /\ [][(ScrollEnd /\ viewer.isPressed) =>
          (/\ last'.op = "scrollend.deferred"
           /\ last'.ret = None
           /\ viewer.nextHandle \in viewer'.pending)]_vars
  /\ [][\A h \in 1..MaxScrollTimers : ScrollEndTimeout(h) => ~viewer.aborted]_vars
  /\ [][viewer.aborted => last'.op \notin {"scrollend.completed", "timeout.completed",
                                            "frame.scrollBy"}]_vars

====
